---- MODULE Spec2Model ----
(***************************************************************************)
(* Model of the OpenDigitalTwin content store (extractor/storage.py), the  *)
(* keyword relevance selector (persona/generator.py) and the conversation  *)
(* memory (memory/digital_twin_memory.py).                                 *)
(*                                                                         *)
(* Python strings whose characters matter (document content, queries) are  *)
(* sequences of one-character strings; opaque strings (names, analyses,    *)
(* roles, turn texts) are TLA+ strings.                                    *)
(***************************************************************************)
EXTENDS Integers, Sequences, FiniteSets, TLC

(* ------------------------------ bounds --------------------------------- *)
MaxDocs == 2
MaxClock == 1
MaxProfileRows == 2
MaxSelDocs == 5
MaxItems == 3
MaxTurns == 2
MaxTurnsArg == 2
MaxNotes == 1
MaxChunks == 2
MaxSaves == 1
MaxAnaDocs == 3
MaxContext == 4
MaxChatInputs == 1
MaxChats == 3

(* ------------------------------ inputs --------------------------------- *)
Names == {"P1", "P2"}
Analyses == {"a1", "a2"}
Sources == {"http://x"}
SourceTypes == {"web"}
StoreContents == {<< >>, <<"a">>}
Procs == {1, 2}
\* document contents and queries of the selector, character by character
SelChoices == {"Ab", "B", "missing"}
SelContent(c) == IF c = "Ab" THEN <<"A", "b">> ELSE <<"B">>
Queries == {<< >>, <<"A", " ", "b">>, <<" ", "b", " ", " ", "b">>, <<"a", "b">>}
NoAnalysis == "<none>"
NoneArg == "<None>"
\* the (role, content, query) of the store_conversation_turn calls
TurnCalls == {<<"user", "Hi", NoneArg>>, <<"assistant", "Hello!", "Hi">>,
              <<"assistant", "Hi", NoneArg>>}
\* the (content, source, content_type) of the add_content calls
MemoryContents == {<<<<"Test content">>, "test.txt", "document">>}
ContextQueries == {"greeting"}
PersonaName == "Test Persona"
MemoryDir == "data/test_persona/memory"
MaxMemoriesArgs == {0, 3}

VARIABLES
    content,            \* table content: rows in rowid order
    content_seq,        \* AUTOINCREMENT counter of table content
    persona_profile,    \* table persona_profile: rows in rowid order
    profile_seq,        \* AUTOINCREMENT counter of table persona_profile
    now,                \* CURRENT_TIMESTAMP, in whole seconds
    pc,                 \* position of each concurrent save_persona_profile
    args,               \* its (name, analysis)
    existing,           \* its local variable `existing`
    txn,                \* its uncommitted image of persona_profile
    lock,               \* holder of the SQLite write lock, 0 when free
    lastSaved,          \* history: analysis of the latest completed save per name
    use_memory,         \* DigitalTwinMemory.use_memory
    memories,           \* the notes held by DigitalTwinMemory.memory_system
    conversation_history, \* DigitalTwinMemory.conversation_history
    turn_calls,         \* history: store_conversation_turn calls since the last clear
    command,            \* the interactive command that runs: voice_chat or scenario
    cli_pc,             \* its position in the conversation loop
    save_calls,         \* history: calls of teacher.save_session
    is_recording,       \* AudioRecorder.is_recording
    stream,             \* AudioRecorder.stream: "none", "open", "stopped", "closed", "terminated"
    frames,             \* AudioRecorder.frames: the number of chunks in the buffer
    wav,                \* chunks written to the audio file of this recording, -1 before
    rec_pc,             \* position of the foreground in record_until_enter
    th_pc,              \* position of the recording thread
    teacher_history,    \* EnglishTeacher.conversation_history
    system_prompt,      \* EnglishTeacher.system_prompt
    current_scenario,   \* EnglishTeacher.current_scenario: a scenario id, or None
    max_history_exchanges, \* EnglishTeacher.config.max_history_exchanges
    chat_log,           \* history: the chat calls since the history was last emptied
    ret                 \* the last call: its arguments, the locals of interest, its result

storeVars == <<content, content_seq, persona_profile, profile_seq, now>>
concVars == <<pc, args, existing, txn, lock>>
histVars == <<lastSaved>>
memVars == <<use_memory, memories, conversation_history, turn_calls>>
cliVars == <<command, cli_pc, save_calls>>
recVars == <<is_recording, stream, frames, wav, rec_pc, th_pc>>
voiceVars == <<command, cli_pc, save_calls, is_recording, stream, frames, wav, rec_pc, th_pc>>
teacherVars == <<teacher_history, system_prompt, current_scenario, max_history_exchanges, chat_log>>
vars == <<content, content_seq, persona_profile, profile_seq, now,
          pc, args, existing, txn, lock, lastSaved,
          use_memory, memories, conversation_history, turn_calls,
          command, cli_pc, save_calls, is_recording, stream, frames, wav, rec_pc, th_pc,
          teacher_history, system_prompt, current_scenario, max_history_exchanges, chat_log,
          ret>>

(* ------------------------- sequence helpers ---------------------------- *)
Range(s) == {s[i] : i \in 1..Len(s)}

Min(a, b) == IF a <= b THEN a ELSE b

Max(a, b) == IF a >= b THEN a ELSE b

(* ------------------------------ Storage -------------------------------- *)
\* mutant: every row gets the id 1
ContentRow_FirstId(id, source, source_type, c, metadata) ==
    [id |-> 1, source |-> source, source_type |-> source_type, content |-> c,
     metadata |-> metadata, created_at |-> now]

\* INSERT INTO content ...; lastrowid
ContentRow(id, source, source_type, c, metadata) ==
    [id |-> id, source |-> source, source_type |-> source_type, content |-> c,
     metadata |-> metadata, created_at |-> now]

\* SELECT * FROM content ORDER BY created_at DESC: every order of the rows
\* in which created_at never increases (SQL leaves the order of ties open)
RECURSIVE OrderedByCreatedAtDesc(_)
OrderedByCreatedAtDesc(rows) ==
    IF rows = {} THEN {<< >>}
    ELSE UNION {{<<r>> \o l : l \in OrderedByCreatedAtDesc(rows \ {r})} :
                   r \in {x \in rows : \A y \in rows : x.created_at >= y.created_at}}

Listings(table) == OrderedByCreatedAtDesc(Range(table))

\* mutant: the WHERE clause is left out
ProfileRows_AnyName(table, name) == DOMAIN table

\* SELECT ... FROM persona_profile WHERE name = ?
ProfileRows(table, name) == {i \in 1..Len(table) : table[i].name = name}

\* cursor.fetchone() of that SELECT: the first matching row
FirstProfileRow(table, name) ==
    table[CHOOSE i \in ProfileRows(table, name) : \A j \in ProfileRows(table, name) : i <= j]

\* mutant: the UPDATE has no WHERE clause
UpdateProfile_NoWhere(table, name, analysis) ==
    [i \in 1..Len(table) |-> [table[i] EXCEPT !.analysis = analysis, !.updated_at = now]]

\* UPDATE persona_profile SET analysis = ?, updated_at = CURRENT_TIMESTAMP WHERE name = ?
UpdateProfile(table, name, analysis) ==
    [i \in 1..Len(table) |->
        IF table[i].name = name
        THEN [table[i] EXCEPT !.analysis = analysis, !.updated_at = now]
        ELSE table[i]]

\* INSERT INTO persona_profile (name, analysis) VALUES (?, ?)
InsertProfile(table, id, name, analysis) ==
    Append(table, [id |-> id, name |-> name, analysis |-> analysis, updated_at |-> now])

\* mutant: the existence check is ignored and a row is always inserted
UpsertProfile_AlwaysInsert(table, exists, id, name, analysis) ==
    InsertProfile(table, id, name, analysis)

\* the body of save_persona_profile once `existing` is known
UpsertProfile(table, exists, id, name, analysis) ==
    IF exists THEN UpdateProfile(table, name, analysis)
    ELSE InsertProfile(table, id, name, analysis)

\* no save_persona_profile call in progress
ConcIdle ==
    /\ pc = [p \in Procs |-> "idle"]
    /\ args = [p \in Procs |-> [name |-> "P1", analysis |-> "a1"]]
    /\ existing = [p \in Procs |-> FALSE]
    /\ txn = [p \in Procs |-> << >>]
    /\ lock = 0

\* no interactive command runs, no AudioRecorder in use
VoiceIdle ==
    /\ command = "none"
    /\ cli_pc = "exited"
    /\ save_calls = 0
    /\ is_recording = FALSE
    /\ stream = "none"
    /\ frames = 0
    /\ wav = -1
    /\ rec_pc = "idle"
    /\ th_pc = "none"

\* no EnglishTeacher in use
TeacherIdle ==
    /\ teacher_history = << >>
    /\ system_prompt = "none"
    /\ current_scenario = NoneArg
    /\ max_history_exchanges = 10
    /\ chat_log = << >>

\* a fresh database file
StoreEmpty ==
    /\ content = << >>
    /\ content_seq = 0
    /\ persona_profile = << >>
    /\ profile_seq = 0
    /\ lastSaved = [n \in Names |-> NoAnalysis]

\* no DigitalTwinMemory in use
MemoryOff ==
    /\ use_memory = FALSE
    /\ memories = << >>
    /\ conversation_history = << >>
    /\ turn_calls = 0

Init ==
    /\ StoreEmpty
    /\ now = 0
    /\ ConcIdle
    /\ VoiceIdle
    /\ TeacherIdle
    /\ MemoryOff
    /\ ret = [op |-> "init"]

\* the wall clock reaches the next second
Tick ==
    /\ now < MaxClock
    /\ now' = now + 1
    /\ ret' = [op |-> "tick"]
    /\ UNCHANGED <<content, content_seq, persona_profile, profile_seq, concVars, histVars, memVars, voiceVars, teacherVars>>

AddContent(source, source_type, c, metadata) ==
    /\ Len(content) < MaxDocs
    /\ content_seq' = content_seq + 1
    /\ content' = Append(content, ContentRow(content_seq + 1, source, source_type, c, metadata))
    /\ ret' = [op |-> "add_content", content |-> c, status |-> "ok", value |-> content_seq + 1]
    /\ UNCHANGED <<persona_profile, profile_seq, now, concVars, histVars, memVars, voiceVars, teacherVars>>

GetAllContent ==
    /\ \E l \in Listings(content) :
          ret' = [op |-> "get_all_content", value |-> l]
    /\ UNCHANGED <<storeVars, concVars, histVars, memVars, voiceVars, teacherVars>>

GetContentCount ==
    /\ ret' = [op |-> "get_content_count", value |-> Len(content)]
    /\ UNCHANGED <<storeVars, concVars, histVars, memVars, voiceVars, teacherVars>>

\* save_persona_profile run from start to end with no other connection active
SavePersonaProfile(name, analysis) ==
    /\ Len(persona_profile) < MaxProfileRows \/ ProfileRows(persona_profile, name) # {}
    /\ LET exists == ProfileRows(persona_profile, name) # {}
       IN  /\ persona_profile' = UpsertProfile(persona_profile, exists, profile_seq + 1, name, analysis)
           /\ profile_seq' = IF exists THEN profile_seq ELSE profile_seq + 1
    /\ lastSaved' = [lastSaved EXCEPT ![name] = analysis]
    /\ ret' = [op |-> "save_persona_profile", name |-> name, analysis |-> analysis,
               previous |-> lastSaved[name]]
    /\ UNCHANGED <<content, content_seq, now, concVars, memVars, voiceVars, teacherVars>>

GetPersonaProfile(name) ==
    /\ ret' = IF ProfileRows(persona_profile, name) # {}
              THEN [op |-> "get_persona_profile", name |-> name, found |-> TRUE,
                    value |-> FirstProfileRow(persona_profile, name)]
              ELSE [op |-> "get_persona_profile", name |-> name, found |-> FALSE]
    /\ UNCHANGED <<storeVars, concVars, histVars, memVars, voiceVars, teacherVars>>

Next ==
    \/ Tick
    \/ \E s \in Sources, t \in SourceTypes, c \in StoreContents : AddContent(s, t, c, "{}")
    \/ GetAllContent
    \/ GetContentCount
    \/ \E n \in Names, a \in Analyses : SavePersonaProfile(n, a)
    \/ \E n \in Names : GetPersonaProfile(n)

Spec == Init /\ [][Next]_vars

(* ------------- save_persona_profile, statement by statement ------------ *)
\* number of calls that have been started and have not returned
Active == Cardinality({p \in Procs : pc[p] # "idle"})

\* sqlite3.connect(...); conn.cursor()
SaveConnect(p, name, analysis) ==
    /\ pc[p] = "idle"
    /\ Len(persona_profile) + Active < MaxProfileRows \/ ProfileRows(persona_profile, name) # {}
    /\ pc' = [pc EXCEPT ![p] = "connected"]
    /\ args' = [args EXCEPT ![p] = [name |-> name, analysis |-> analysis]]
    /\ UNCHANGED <<storeVars, existing, txn, lock, histVars, ret, memVars, voiceVars, teacherVars>>

\* cursor.execute("SELECT id ..."); existing = cursor.fetchone()
\* (a SELECT opens no transaction and reads the committed table)
SaveSelect(p) ==
    /\ pc[p] = "connected"
    /\ existing' = [existing EXCEPT ![p] = ProfileRows(persona_profile, args[p].name) # {}]
    /\ pc' = [pc EXCEPT ![p] = "selected"]
    /\ UNCHANGED <<storeVars, args, txn, lock, histVars, ret, memVars, voiceVars, teacherVars>>

\* cursor.execute(UPDATE ... / INSERT ...): begins the write transaction
SaveExecute(p) ==
    /\ pc[p] = "selected"
    /\ lock = 0
    /\ lock' = p
    /\ txn' = [txn EXCEPT ![p] = UpsertProfile(persona_profile, existing[p], profile_seq + 1,
                                               args[p].name, args[p].analysis)]
    /\ pc' = [pc EXCEPT ![p] = "executed"]
    /\ UNCHANGED <<storeVars, args, existing, histVars, ret, memVars, voiceVars, teacherVars>>

\* the same statement while another connection holds the write lock past the
\* busy timeout: sqlite3.OperationalError, nothing is written
SaveLocked(p) ==
    /\ pc[p] = "selected"
    /\ lock \notin {0, p}
    /\ pc' = [pc EXCEPT ![p] = "failed"]
    /\ UNCHANGED <<storeVars, args, existing, txn, lock, histVars, ret, memVars, voiceVars, teacherVars>>

\* conn.commit()
SaveCommit(p) ==
    /\ pc[p] = "executed"
    /\ persona_profile' = txn[p]
    /\ profile_seq' = IF existing[p] THEN profile_seq ELSE profile_seq + 1
    /\ lock' = 0
    /\ txn' = [txn EXCEPT ![p] = << >>]
    /\ pc' = [pc EXCEPT ![p] = "done"]
    /\ lastSaved' = [lastSaved EXCEPT ![args[p].name] = args[p].analysis]
    /\ UNCHANGED <<content, content_seq, now, args, existing, ret, memVars, voiceVars, teacherVars>>

\* conn.close(); return (or the exception leaves the call)
SaveReturn(p) ==
    /\ pc[p] \in {"done", "failed"}
    /\ pc' = [pc EXCEPT ![p] = "idle"]
    /\ ret' = [op |-> "save_persona_profile", name |-> args[p].name, analysis |-> args[p].analysis]
    /\ UNCHANGED <<storeVars, args, existing, txn, lock, histVars, memVars, voiceVars, teacherVars>>

NextConc ==
    \/ Tick
    \/ \E p \in Procs, n \in Names, a \in Analyses : SaveConnect(p, n, a)
    \/ \E p \in Procs : SaveSelect(p)
    \/ \E p \in Procs : SaveExecute(p)
    \/ \E p \in Procs : SaveLocked(p)
    \/ \E p \in Procs : SaveCommit(p)
    \/ \E p \in Procs : SaveReturn(p)

SpecConc == Init /\ [][NextConc]_vars

(* ---------------------- Keyword relevance selector --------------------- *)
\* str.lower() on one character
LowerChar(ch) == CASE ch = "A" -> "a" [] ch = "B" -> "b" [] ch = "C" -> "c" [] OTHER -> ch

\* str.lower()
Lower(str) == [i \in 1..Len(str) |-> LowerChar(str[i])]

IsSpace(ch) == ch \in {" ", "\t", "\n"}

\* str.split(): the maximal runs of non-whitespace characters, left to right
RECURSIVE SplitFrom(_, _, _)
SplitFrom(str, i, word) ==
    IF i > Len(str) THEN (IF word = << >> THEN << >> ELSE <<word>>)
    ELSE IF IsSpace(str[i])
         THEN (IF word = << >> THEN << >> ELSE <<word>>) \o SplitFrom(str, i + 1, << >>)
         ELSE SplitFrom(str, i + 1, Append(word, str[i]))

\* mutant: split(" "), which also yields the empty runs between separators
Split_OnEverySpace(str) ==
    LET cuts == <<0>> \o SelectSeq([i \in 1..Len(str) |-> i], LAMBDA i : IsSpace(str[i]))
                      \o <<Len(str) + 1>>
    IN  [k \in 1..(Len(cuts) - 1) |-> SubSeq(str, cuts[k] + 1, cuts[k + 1] - 1)]

Split(str) == SplitFrom(str, 1, << >>)

\* keywords = set(query.lower().split())
Keywords(query) == Range(Split(Lower(query)))

\* kw in content
Contains(str, kw) ==
    \E i \in 0..(Len(str) - Len(kw)) : SubSeq(str, i + 1, i + Len(kw)) = kw

\* dict.get(key, default)
DictGet(item, key, default) == IF key \in DOMAIN item THEN item[key] ELSE default

\* mutant: every keyword counts once any keyword matches
Score_AllKeywords(keywords, item) ==
    IF \E kw \in keywords : Contains(Lower(DictGet(item, "content", << >>)), kw)
    THEN Cardinality(keywords) ELSE 0

\* score = sum(1 for kw in keywords if kw in content)
Score(keywords, item) ==
    LET content_ == Lower(DictGet(item, "content", << >>))
    IN  Cardinality({kw \in keywords : Contains(content_, kw)})

\* the loop that fills scored_items
RECURSIVE ScoredItems(_, _)
ScoredItems(keywords, items) ==
    IF items = << >> THEN << >>
    ELSE LET score == Score(keywords, Head(items))
         IN  (IF score > 0 THEN <<[score |-> score, item |-> Head(items)]>> ELSE << >>)
                 \o ScoredItems(keywords, Tail(items))

\* mutant: the insertion goes in front of the entries of equal score
InsertByScore_BeforeTies(sorted, x) ==
    LET k == Cardinality({i \in 1..Len(sorted) : sorted[i].score > x.score})
    IN  SubSeq(sorted, 1, k) \o <<x>> \o SubSeq(sorted, k + 1, Len(sorted))

\* one insertion of list.sort(reverse=True, key=score): behind every entry
\* whose score is at least as high (the sort is stable)
InsertByScore(sorted, x) ==
    LET k == Cardinality({i \in 1..Len(sorted) : sorted[i].score >= x.score})
    IN  SubSeq(sorted, 1, k) \o <<x>> \o SubSeq(sorted, k + 1, Len(sorted))

\* scored_items.sort(reverse=True, key=lambda x: x[0])
RECURSIVE SortByScore(_)
SortByScore(scored) ==
    IF scored = << >> THEN << >>
    ELSE InsertByScore(SortByScore(SubSeq(scored, 1, Len(scored) - 1)), scored[Len(scored)])

\* seq[:n]
SliceTo(seq, n) ==
    IF n >= 0 THEN SubSeq(seq, 1, Min(n, Len(seq)))
    ELSE SubSeq(seq, 1, Max(Len(seq) + n, 0))

\* scored_items once filled and sorted
RankedItems(all_content, query) ==
    IF all_content = << >> THEN << >>
    ELSE SortByScore(ScoredItems(Keywords(query), all_content))

\* [item for _, item in scored_items[:max_items]]
TopItems(scored_items, max_items) ==
    LET top == SliceTo(scored_items, max_items)
    IN  [i \in 1..Len(top) |-> top[i].item]

\* a document as the storage handed to ResponseGenerator lists it (id,
\* content, created_at; the other columns are not read); a storage double
\* may leave the content key out
SelRow(i, c) ==
    IF c = "missing"
    THEN [id |-> i, created_at |-> i]
    ELSE [id |-> i, content |-> SelContent(c), created_at |-> i]

SelTables ==
    UNION {{[i \in 1..n |-> SelRow(i, f[i])] : f \in [1..n -> SelChoices]} : n \in 0..MaxSelDocs}

InitSel ==
    /\ content \in SelTables
    /\ content_seq = Len(content)
    /\ persona_profile = << >>
    /\ profile_seq = 0
    /\ lastSaved = [n \in Names |-> NoAnalysis]
    /\ now = Len(content)
    /\ ConcIdle
    /\ VoiceIdle
    /\ TeacherIdle
    /\ MemoryOff
    /\ ret = [op |-> "init"]

FindRelevantContext(query, max_items) ==
    /\ \E all_content \in Listings(content) :
          LET scored_items == RankedItems(all_content, query)
          IN  ret' = [op |-> "find_relevant_context", query |-> query, max_items |-> max_items,
                      all_content |-> all_content, scored_items |-> scored_items,
                      value |-> TopItems(scored_items, max_items)]
    /\ UNCHANGED <<storeVars, concVars, histVars, memVars, voiceVars, teacherVars>>

NextSel == \E q \in Queries, k \in 0..MaxItems : FindRelevantContext(q, k)

SpecSel == InitSel /\ [][NextSel]_vars

(* -------------------------- Conversation memory ------------------------ *)
\* a Python value used as a condition: None and "" are false
Truthy(v) == v \notin {NoneArg, ""}

\* a value formatted inside an f-string
Str(v) == IF v = NoneArg THEN "None" ELSE v

\* str.capitalize() on the role names
Capitalize(role) ==
    CASE role = "user" -> "User" [] role = "assistant" -> "Assistant"
      [] role = "unknown" -> "Unknown" [] OTHER -> role

\* seq[-n:]
SliceLast(seq, n) ==
    LET i == 0 - n
        start == IF i < 0 THEN Max(Len(seq) + i, 0) ELSE Min(i, Len(seq))
    IN  SubSeq(seq, start + 1, Len(seq))

\* sep.join(parts), token by token
RECURSIVE Join(_, _)
Join(parts, sep) ==
    IF parts = << >> THEN << >>
    ELSE IF Len(parts) = 1 THEN parts[1]
    ELSE parts[1] \o <<sep>> \o Join(Tail(parts), sep)

\* the turn dict built by store_conversation_turn
NewTurn(role, text, query) ==
    IF Truthy(query)
    THEN [role |-> role, content |-> text, timestamp |-> now, query |-> query]
    ELSE [role |-> role, content |-> text, timestamp |-> now]

\* mutant: a turn equal to a stored one is not appended again
AppendTurn_NoDuplicates(history, turn) ==
    IF \E i \in 1..Len(history) :
          history[i].role = turn.role /\ history[i].content = turn.content
    THEN history ELSE Append(history, turn)

\* self.conversation_history.append(turn)
AppendTurn(history, turn) == Append(history, turn)

\* mutant: every role is written to long-term memory
ShouldRemember_AnyRole(enabled, role) == enabled

\* if self.use_memory and role == "assistant"
ShouldRemember(enabled, role) == enabled /\ role = "assistant"

\* the note add_content hands to memory_system.add_note
MemoryNote(text, source, content_type, metadata) ==
    [content |-> text,
     metadata |-> [source |-> IF Truthy(source) THEN source ELSE "unknown",
                   content_type |-> content_type,
                   persona |-> PersonaName,
                   timestamp |-> now] @@ metadata]

\* an exception leaving a call, and a normal return
Raise == [raised |-> TRUE]
Return(v) == [raised |-> FALSE, value |-> v]

\* which of the two the backend did, as recorded with the call
Backend(outcome) == IF outcome.raised THEN "raise" ELSE "ok"

\* what memory_system.add_note can do: raise, or return the id of the new note
AddNote(notes) == {Raise, Return(ToString(Len(notes) + 1))}

\* DigitalTwinMemory.add_content: the notes afterwards; `ok` is whether
\* memory_system.add_note succeeded (an exception is caught and logged).
\* use_memory is only true while memory_system is set (see __init__).
AddContentNotes(notes, enabled, ok, note) ==
    IF ~enabled THEN notes
    ELSE IF ok THEN Append(notes, note)
    ELSE notes

\* DigitalTwinMemory.add_content: what it returns, given what add_note did
AddContentResult(enabled, outcome) ==
    IF ~enabled THEN Return(NoneArg)
    ELSE IF outcome.raised THEN Return(NoneArg)
    ELSE Return(outcome.value)

\* the note store_conversation_turn writes for an assistant turn
ConversationNote(text, query, turn_number) ==
    MemoryNote(<<"Q: ", Str(query), "\nA: ", text>>, NoneArg, "conversation",
               [conversation_turn |-> turn_number, query |-> query])

\* the subsequences of a sequence with at most k entries
RECURSIVE SubSequences(_)
SubSequences(seq) ==
    IF seq = << >> THEN {<< >>}
    ELSE LET rest == SubSequences(Tail(seq))
         IN  rest \cup {<<Head(seq)>> \o r : r \in rest}

\* what memory_system.search_agentic can do: raise, or return up to k stored notes
SearchAgentic(notes, k) ==
    {Raise} \cup {Return(r) : r \in {q \in SubSequences(notes) : Len(q) <= k}}

\* mutant: search without its except clause
Search_NoCatch(enabled, outcome) ==
    IF ~enabled THEN Return(<< >>) ELSE outcome

\* DigitalTwinMemory.search, given what search_agentic did: [] when disabled
\* or when search_agentic raised (the exception is caught and logged)
Search(enabled, outcome) ==
    IF ~enabled THEN Return(<< >>)
    ELSE IF outcome.raised THEN Return(<< >>)
    ELSE Return(outcome.value)

\* f"**{role.capitalize()}**: {content}"
TurnLine(turn) ==
    <<"**", Capitalize(DictGet(turn, "role", "unknown")), "**: ", DictGet(turn, "content", "")>>

\* f"{i}. {content}\n   (Source: {source})"
MemoryLine(i, mem) ==
    <<ToString(i), ". ">> \o DictGet(mem, "content", << >>)
        \o <<"\n   (Source: ", DictGet(DictGet(mem, "metadata", << >>), "source", "unknown"), ")">>

RecentHeader == <<"## Recent Conversation">>
MemoryHeader == <<"\n## Relevant Context from Memory">>

\* the first half of get_conversation_context
RecentParts(history, max_turns) ==
    IF history # << >>
    THEN LET recent_turns == SliceLast(history, max_turns)
         IN  <<RecentHeader>> \o [i \in 1..Len(recent_turns) |-> TurnLine(recent_turns[i])]
    ELSE << >>

\* the second half, given what search returned
MemoryParts(found) ==
    IF found # << >>
    THEN <<MemoryHeader>> \o [i \in 1..Len(found) |-> MemoryLine(i, found[i])]
    ELSE << >>

InitMem ==
    /\ StoreEmpty
    /\ now = 0
    /\ ConcIdle
    /\ VoiceIdle
    /\ TeacherIdle
    /\ use_memory \in BOOLEAN
    /\ memories = << >>
    /\ conversation_history = << >>
    /\ turn_calls = 0
    /\ ret = [op |-> "init"]

\* add_content(content, source, content_type, metadata=None)
MemoryAddContent(text, source, content_type) ==
    /\ use_memory => Len(memories) < MaxNotes
    /\ \E outcome \in (IF use_memory THEN AddNote(memories) ELSE {Return(NoneArg)}) :
          LET res == AddContentResult(use_memory, outcome)
          IN  /\ memories' = AddContentNotes(memories, use_memory, ~outcome.raised,
                                             MemoryNote(text, source, content_type, << >>))
              /\ ret' = [op |-> "add_content", content |-> text,
                         backend |-> IF use_memory THEN Backend(outcome) ELSE "none",
                         raised |-> res.raised] @@ res
    /\ UNCHANGED <<storeVars, concVars, histVars, use_memory, conversation_history, turn_calls, voiceVars, teacherVars>>

\* search(query, k)
MemorySearch(query, k) ==
    /\ \E outcome \in (IF use_memory THEN SearchAgentic(memories, k) ELSE {Return(<< >>)}) :
          LET res == Search(use_memory, outcome)
          IN  ret' = [op |-> "search", query |-> query, k |-> k,
                      backend |-> IF use_memory THEN Backend(outcome) ELSE "none"] @@ res
    /\ UNCHANGED <<storeVars, concVars, histVars, memVars, voiceVars, teacherVars>>

StoreConversationTurn(role, text, query) ==
    /\ Len(conversation_history) < MaxTurns
    /\ ShouldRemember(use_memory, role) => Len(memories) < MaxNotes
    /\ LET history == AppendTurn(conversation_history, NewTurn(role, text, query))
           call == [op |-> "store_conversation_turn", role |-> role,
                    content |-> text, query |-> query]
       IN  /\ conversation_history' = history
           /\ IF ShouldRemember(use_memory, role)
              THEN \E outcome \in AddNote(memories) :
                      LET res == AddContentResult(use_memory, outcome)
                      IN  /\ memories' = AddContentNotes(memories, use_memory, ~outcome.raised,
                                                         ConversationNote(text, query, Len(history)))
                          /\ ret' = call @@ [backend |-> Backend(outcome), raised |-> res.raised]
              ELSE /\ memories' = memories
                   /\ ret' = call @@ [backend |-> "none", raised |-> FALSE]
    /\ turn_calls' = turn_calls + 1
    /\ UNCHANGED <<storeVars, concVars, histVars, use_memory, voiceVars, teacherVars>>

\* mutant: the memory block is put in front of the recent conversation
ContextParts_MemoryFirst(history, max_turns, found) ==
    MemoryParts(found) \o RecentParts(history, max_turns)

\* context_parts at the return of get_conversation_context
ContextParts(history, max_turns, found) ==
    RecentParts(history, max_turns) \o MemoryParts(found)

GetConversationContext(query, max_turns, max_memories) ==
    /\ LET searched == use_memory /\ max_memories > 0
       IN  \E outcome \in (IF searched THEN SearchAgentic(memories, max_memories)
                           ELSE {Return(<< >>)}) :
              LET res == IF searched THEN Search(use_memory, outcome) ELSE Return(<< >>)
                  call == [op |-> "get_conversation_context", query |-> query,
                           max_turns |-> max_turns, max_memories |-> max_memories,
                           backend |-> IF searched THEN Backend(outcome) ELSE "none",
                           raised |-> res.raised]
              IN  IF res.raised
                  THEN ret' = call
                  ELSE LET context_parts == ContextParts(conversation_history, max_turns, res.value)
                       IN  ret' = call @@ [memories |-> res.value,
                                           context_parts |-> context_parts,
                                           value |-> Join(context_parts, "\n\n")]
    /\ UNCHANGED <<storeVars, concVars, histVars, memVars, voiceVars, teacherVars>>

\* (evolution_count, a counter kept inside the external memory system, and
\* the "error" entry written when reading that system fails are left out)
GetMemoryStats ==
    /\ ret' = [op |-> "get_memory_stats",
               value |-> [persona |-> PersonaName,
                          memory_enabled |-> use_memory,
                          conversation_turns |-> Len(conversation_history),
                          memory_dir |-> MemoryDir]
                         @@ (IF use_memory THEN [total_memories |-> Len(memories)] ELSE << >>)]
    /\ UNCHANGED <<storeVars, concVars, histVars, memVars, voiceVars, teacherVars>>

ClearConversationHistory ==
    /\ conversation_history' = << >>
    /\ turn_calls' = 0
    /\ ret' = [op |-> "clear_conversation_history"]
    /\ UNCHANGED <<storeVars, concVars, histVars, use_memory, memories, voiceVars, teacherVars>>

\* reset_memory: re-creating the memory system empties it, unless that fails
ResetMemory(confirm) ==
    /\ IF confirm
       THEN /\ conversation_history' = << >>
            /\ turn_calls' = 0
            /\ IF use_memory THEN memories' \in {<< >>, memories} ELSE memories' = memories
       ELSE UNCHANGED <<conversation_history, turn_calls, memories>>
    /\ ret' = [op |-> "reset_memory", confirm |-> confirm]
    /\ UNCHANGED <<storeVars, concVars, histVars, use_memory, voiceVars, teacherVars>>

\* (the clock stands still here: no operation of the memory reads a timestamp)
NextMem ==
    \/ \E c \in MemoryContents : MemoryAddContent(c[1], c[2], c[3])
    \/ \E q \in ContextQueries, k \in MaxMemoriesArgs : MemorySearch(q, k)
    \/ \E c \in TurnCalls : StoreConversationTurn(c[1], c[2], c[3])
    \/ \E q \in ContextQueries, n \in 0..MaxTurnsArg, m \in MaxMemoriesArgs :
          GetConversationContext(q, n, m)
    \/ GetMemoryStats
    \/ ClearConversationHistory
    \/ \E c \in BOOLEAN : ResetMemory(c)

SpecMem == InitMem /\ [][NextMem]_vars

(* ----------------------- Voice loop and recorder ----------------------- *)
Commands == {"voice_chat", "scenario"}
\* what the user enters at click.prompt, and what stt.transcribe returns
UserInputs == {"quit", "save", "end", "progress", "hello", "bye", ""}
Transcripts == {"hello", "bye"}

\* user_input.lower() in ['quit', 'exit'] (voice_chat), == 'end' (scenario)
IsExitCommand(cmd, user_input) ==
    IF cmd = "voice_chat" THEN user_input \in {"quit", "exit"} ELSE user_input = "end"

\* user_input.lower() == 'save' (voice_chat), == 'progress' (scenario)
IsContinueCommand(cmd, user_input) ==
    IF cmd = "voice_chat" THEN user_input = "save" ELSE user_input = "progress"

\* student_message.lower().strip() in ['quit', 'exit', 'goodbye', 'bye'];
\* only voice_chat makes this test
IsFarewell(cmd, student_message) ==
    cmd = "voice_chat" /\ student_message \in {"quit", "exit", "goodbye", "bye"}

\* the handler of KeyboardInterrupt calls teacher.save_session in voice_chat;
\* in scenario it calls teacher.end_scenario, which saves nothing
SavesOnInterrupt(cmd) == cmd = "voice_chat"

\* mutant: join returns without waiting for the thread
Joined_NoWait(t) == TRUE

\* record_thread.join() returns once record_loop has returned or raised
Joined(t) == t \in {"done", "died"}

InitVoice ==
    /\ StoreEmpty
    /\ now = 0
    /\ ConcIdle
    /\ MemoryOff
    /\ TeacherIdle
    /\ command \in Commands
    /\ cli_pc = "prompt"
    /\ save_calls = 0
    /\ is_recording = FALSE
    /\ stream = "none"
    /\ frames = 0
    /\ wav = -1
    /\ rec_pc = "idle"
    /\ th_pc = "none"
    /\ ret = [op |-> "init"]

\* one pass through click.prompt and the tests on user_input
Prompt(user_input) ==
    /\ cli_pc = "prompt"
    /\ ret' = [op |-> command, event |-> "prompt", user_input |-> user_input]
    /\ IF IsExitCommand(command, user_input)
       THEN /\ save_calls' = save_calls + 1
            /\ cli_pc' = "exited"
            /\ UNCHANGED rec_pc
       ELSE IF IsContinueCommand(command, user_input)
       THEN /\ command = "voice_chat" => save_calls < MaxSaves
            /\ save_calls' = IF command = "voice_chat" THEN save_calls + 1 ELSE save_calls
            /\ UNCHANGED <<cli_pc, rec_pc>>
       ELSE IF user_input # ""
       THEN IF IsFarewell(command, user_input)
            THEN /\ save_calls < MaxSaves
                 /\ save_calls' = save_calls + 1
                 /\ cli_pc' = "farewell"
                 /\ UNCHANGED rec_pc
            ELSE /\ cli_pc' = "chat"
                 /\ UNCHANGED <<save_calls, rec_pc>>
       ELSE /\ cli_pc' = "record"
            /\ rec_pc' = "call"
            /\ UNCHANGED save_calls
    /\ UNCHANGED <<storeVars, concVars, histVars, memVars, teacherVars, command,
                   is_recording, stream, frames, wav, th_pc>>

\* a keyboard interrupt at click.prompt: click raises Abort, an Exception,
\* which the loop's `except Exception` reports; the loop goes on
PromptAbort ==
    /\ cli_pc = "prompt"
    /\ ret' = [op |-> command, event |-> "Abort"]
    /\ UNCHANGED <<storeVars, concVars, histVars, memVars, voiceVars, teacherVars>>

\* start_recording; audio.open may raise, which the loop reports
StartRecording ==
    /\ cli_pc = "record" /\ rec_pc = "call"
    /\ frames' = 0
    /\ wav' = -1
    /\ is_recording' = TRUE
    /\ \/ /\ stream' = "open"
          /\ rec_pc' = "start_thread"
          /\ UNCHANGED <<cli_pc, ret>>
       \/ /\ rec_pc' = "idle"
          /\ cli_pc' = "prompt"
          /\ ret' = [op |-> command, event |-> "Exception", at |-> "record"]
          /\ UNCHANGED stream
    /\ UNCHANGED <<storeVars, concVars, histVars, memVars, teacherVars, command, save_calls, th_pc>>

\* record_thread.start()
ThreadStart ==
    /\ rec_pc = "start_thread"
    /\ th_pc' = "loop"
    /\ rec_pc' = "input"
    /\ UNCHANGED <<storeVars, concVars, histVars, memVars, teacherVars, cliVars,
                   is_recording, stream, frames, wav, ret>>

\* input() returns: the user pressed Enter
PressEnter ==
    /\ rec_pc = "input"
    /\ rec_pc' = "stop"
    /\ UNCHANGED <<storeVars, concVars, histVars, memVars, teacherVars, cliVars,
                   is_recording, stream, frames, wav, th_pc, ret>>

\* stop_recording: self.is_recording = False
StopFlag ==
    /\ rec_pc = "stop"
    /\ is_recording' = FALSE
    /\ rec_pc' = "stop_stream"
    /\ UNCHANGED <<storeVars, concVars, histVars, memVars, teacherVars, cliVars,
                   stream, frames, wav, th_pc, ret>>

\* stop_recording: self.stream.stop_stream()
StopStream ==
    /\ rec_pc = "stop_stream"
    /\ stream' = "stopped"
    /\ rec_pc' = "close"
    /\ UNCHANGED <<storeVars, concVars, histVars, memVars, teacherVars, cliVars,
                   is_recording, frames, wav, th_pc, ret>>

\* stop_recording: self.stream.close()
CloseStream ==
    /\ rec_pc = "close"
    /\ stream' = "closed"
    /\ rec_pc' = "write"
    /\ UNCHANGED <<storeVars, concVars, histVars, memVars, teacherVars, cliVars,
                   is_recording, frames, wav, th_pc, ret>>

\* stop_recording: wf.writeframes(b''.join(self.frames)); return temp_path
WriteFrames ==
    /\ rec_pc = "write"
    /\ wav' = frames
    /\ rec_pc' = "join"
    /\ UNCHANGED <<storeVars, concVars, histVars, memVars, teacherVars, cliVars,
                   is_recording, stream, frames, th_pc, ret>>

\* record_thread.join(); return temp_path
JoinThread ==
    /\ rec_pc = "join"
    /\ Joined(th_pc)
    /\ rec_pc' = "idle"
    /\ cli_pc' = "transcribe"
    /\ ret' = [op |-> command, event |-> "recorded", chunks |-> wav]
    /\ UNCHANGED <<storeVars, concVars, histVars, memVars, teacherVars, command, save_calls,
                   is_recording, stream, frames, wav, th_pc>>

\* record_loop: while self.is_recording
ThreadWhile ==
    /\ th_pc = "loop"
    /\ is_recording => frames < MaxChunks
    /\ th_pc' = IF is_recording THEN "if" ELSE "done"
    /\ UNCHANGED <<storeVars, concVars, histVars, memVars, teacherVars, cliVars,
                   is_recording, stream, frames, wav, rec_pc, ret>>

\* record_chunk: if self.is_recording
ThreadIf ==
    /\ th_pc = "if"
    /\ th_pc' = IF is_recording THEN "read" ELSE "loop"
    /\ UNCHANGED <<storeVars, concVars, histVars, memVars, teacherVars, cliVars,
                   is_recording, stream, frames, wav, rec_pc, ret>>

\* record_chunk: self.stream.read is entered; on a stream that is stopped
\* or closed it raises, which ends the thread
ThreadReadCall ==
    /\ th_pc = "read"
    /\ th_pc' = IF stream = "open" THEN "reading" ELSE "died"
    /\ UNCHANGED <<storeVars, concVars, histVars, memVars, teacherVars, cliVars,
                   is_recording, stream, frames, wav, rec_pc, ret>>

\* record_chunk: self.stream.read returns a chunk; when the foreground has
\* stopped the stream under the read, it returns the chunk or it raises
ThreadReadReturn ==
    /\ th_pc = "reading"
    /\ th_pc' \in (IF stream = "open" THEN {"append"} ELSE {"append", "died"})
    /\ UNCHANGED <<storeVars, concVars, histVars, memVars, teacherVars, cliVars,
                   is_recording, stream, frames, wav, rec_pc, ret>>

\* record_chunk: self.frames.append(data)
ThreadAppend ==
    /\ th_pc = "append"
    /\ frames' = frames + 1
    /\ th_pc' = "loop"
    /\ UNCHANGED <<storeVars, concVars, histVars, memVars, teacherVars, cliVars,
                   is_recording, stream, wav, rec_pc, ret>>

\* stt.transcribe(audio_file) and, in voice_chat, the test for a farewell
Transcribe(outcome) ==
    /\ cli_pc = "transcribe"
    /\ IF outcome = "raise"
       THEN /\ cli_pc' = "prompt"
            /\ ret' = [op |-> command, event |-> "Exception", at |-> "transcribe"]
            /\ UNCHANGED save_calls
       ELSE /\ ret' = [op |-> command, event |-> "transcribed", student_message |-> outcome]
            /\ IF IsFarewell(command, outcome)
               THEN /\ save_calls < MaxSaves
                    /\ save_calls' = save_calls + 1
                    /\ cli_pc' = "farewell"
               ELSE /\ cli_pc' = "chat"
                    /\ UNCHANGED save_calls
    /\ UNCHANGED <<storeVars, concVars, histVars, memVars, teacherVars, command, recVars>>

\* teacher.chat(student_message): a response, or an Exception the loop reports
Chat(ok) ==
    /\ cli_pc = "chat"
    /\ cli_pc' = IF ok THEN "speak" ELSE "prompt"
    /\ ret' = IF ok THEN [op |-> command, event |-> "response"]
              ELSE [op |-> command, event |-> "Exception", at |-> "chat"]
    /\ UNCHANGED <<storeVars, concVars, histVars, memVars, teacherVars, command, save_calls, recVars>>

\* tts.speak(response); after a farewell the loop breaks, else it goes on
Speak(ok) ==
    /\ cli_pc \in {"speak", "farewell"}
    /\ cli_pc' = IF ok /\ cli_pc = "farewell" THEN "exited" ELSE "prompt"
    /\ ret' = IF ok THEN [op |-> command, event |-> "spoken", at |-> cli_pc]
              ELSE [op |-> command, event |-> "Exception", at |-> cli_pc]
    /\ UNCHANGED <<storeVars, concVars, histVars, memVars, teacherVars, command, save_calls, recVars>>

\* a keyboard interrupt while the loop waits in input(), stt.transcribe,
\* teacher.chat or tts.speak: the handler of KeyboardInterrupt, then break
Interrupt ==
    /\ \/ cli_pc \in {"transcribe", "chat", "speak", "farewell"}
       \/ cli_pc = "record" /\ rec_pc = "input"
    /\ save_calls' = IF SavesOnInterrupt(command) THEN save_calls + 1 ELSE save_calls
    /\ cli_pc' = "exited"
    /\ rec_pc' = "idle"
    /\ ret' = [op |-> command, event |-> "KeyboardInterrupt", at |-> cli_pc]
    /\ UNCHANGED <<storeVars, concVars, histVars, memVars, teacherVars, command,
                   is_recording, stream, frames, wav, th_pc>>

\* the finally clause of the command: recorder.cleanup() stops and closes a
\* stream that is still active and terminates PyAudio
Cleanup ==
    /\ cli_pc = "exited"
    /\ stream # "terminated"
    /\ stream' = "terminated"
    /\ UNCHANGED <<storeVars, concVars, histVars, memVars, teacherVars, cliVars,
                   is_recording, frames, wav, rec_pc, th_pc, ret>>

StopRecording == StopFlag \/ StopStream \/ CloseStream \/ WriteFrames \/ JoinThread

RecordLoop == ThreadWhile \/ ThreadIf \/ ThreadReadCall \/ ThreadReadReturn \/ ThreadAppend

NextVoice ==
    \/ \E u \in UserInputs : Prompt(u)
    \/ PromptAbort
    \/ StartRecording
    \/ ThreadStart
    \/ PressEnter
    \/ StopRecording
    \/ RecordLoop
    \/ \E o \in Transcripts \cup {"raise"} : Transcribe(o)
    \/ \E ok \in BOOLEAN : Chat(ok)
    \/ \E ok \in BOOLEAN : Speak(ok)
    \/ Interrupt
    \/ Cleanup

SpecVoice == InitVoice /\ [][NextVoice]_vars

\* the recording thread is an operating-system thread that keeps being
\* scheduled, and the foreground keeps running once input() has returned;
\* nothing makes the user press Enter
SpecVoiceFair ==
    InitVoice /\ [][NextVoice]_vars /\ WF_vars(RecordLoop) /\ WF_vars(StopRecording)

(* --------------------------- Persona analyzer -------------------------- *)
\* A text is a sequence of segments [src, len]: the first len characters of
\* the content of document src; src 0 is the separator "\n\n---\n\n".
DefaultMaxLength == 50000
AnalysisChars == 15000
SeparatorLen == 7
Separator == [src |-> 0, len |-> SeparatorLen]

\* the lengths of the document contents; 0 is the empty string
DocLens == {0, 25000, 30000}
MaxLengthArgs == {0, 8, DefaultMaxLength}
Aspects == <<"writing_style", "communication_patterns", "topics_themes", "decision_style">>
\* what self.llm.analyze_text does on each of the four calls: all succeed,
\* one fails, or all fail
LLMOutcomes ==
    {[i \in 1..Len(Aspects) |-> "ok"], [i \in 1..Len(Aspects) |-> "raise"]}
    \cup {[i \in 1..Len(Aspects) |-> IF i = k THEN "raise" ELSE "ok"] : k \in 1..Len(Aspects)}
Responses == <<"style", "patterns", "topics", "decisions">>
\* the --name of the analyze command
AnalyzeName == "P1"

\* len(text)
RECURSIVE StrLen(_)
StrLen(text) == IF text = << >> THEN 0 ELSE Head(text).len + StrLen(Tail(text))

\* text[:n], for n >= 0
RECURSIVE SliceText(_, _)
SliceText(text, n) ==
    IF n <= 0 \/ text = << >> THEN << >>
    ELSE IF Head(text).len <= n
    THEN <<Head(text)>> \o SliceText(Tail(text), n - Head(text).len)
    ELSE <<[Head(text) EXCEPT !.len = n]>>

\* the loop of _prepare_content from item i on: the list texts at its end
RECURSIVE PrepareTexts(_, _, _, _, _)
PrepareTexts(content_items, i, texts, total_length, max_length) ==
    IF i > Len(content_items) THEN texts
    ELSE LET c == DictGet(content_items[i], "content", << >>)
         IN  IF c # << >>
             THEN IF total_length + StrLen(c) > max_length
                  THEN Append(texts, c)
                  ELSE PrepareTexts(content_items, i + 1, Append(texts, c),
                                    total_length + StrLen(c), max_length)
             ELSE PrepareTexts(content_items, i + 1, texts, total_length, max_length)

\* mutant: the joined text is returned without the final slice
PrepareContent_NoSlice(content_items, max_length) ==
    Join(PrepareTexts(content_items, 1, << >>, 0, max_length), Separator)

\* _prepare_content(content_items, max_length)
PrepareContent(content_items, max_length) ==
    SliceText(Join(PrepareTexts(content_items, 1, << >>, 0, max_length), Separator),
              max_length)

\* the first call that raises, 0 when none does
FirstFailure(outcomes) ==
    IF \A i \in DOMAIN outcomes : outcomes[i] = "ok" THEN 0
    ELSE CHOOSE i \in DOMAIN outcomes :
            outcomes[i] = "raise" /\ \A j \in 1..(i - 1) : outcomes[j] = "ok"

\* the analyze_text calls made, in order: the aspect and the text handed over
AnalysisCalls(combined_text, n) ==
    [i \in 1..n |-> [aspect |-> Aspects[i], text |-> SliceText(combined_text, AnalysisChars)]]

\* mutant: content_count counts the documents that went into the text
ContentCount_Included(content_items, texts) == Len(texts)

\* 'content_count': len(content_items)
ContentCount(content_items, texts) == Len(content_items)

\* the persona dict compiled from the four results
Persona(results, content_count) ==
    [writing_style |-> results[1], communication_patterns |-> results[2],
     topics_themes |-> results[3], decision_style |-> results[4],
     content_count |-> content_count]

\* mutant: a failed call is replaced by a placeholder and the other calls
\* are still made; the analysis raises only when all four calls fail
AnalyzeContentResult_Degraded(content_items, outcomes) ==
    LET combined_text == PrepareContent(content_items, DefaultMaxLength)
        texts == PrepareTexts(content_items, 1, << >>, 0, DefaultMaxLength)
        calls == AnalysisCalls(combined_text, Len(Aspects))
        results == [i \in 1..Len(Aspects) |->
                       IF outcomes[i] = "ok" THEN Responses[i] ELSE "Not available"]
    IN  IF \A i \in DOMAIN outcomes : outcomes[i] = "raise"
        THEN [raised |-> TRUE, calls |-> calls, combined_text |-> combined_text]
        ELSE [raised |-> FALSE, calls |-> calls, combined_text |-> combined_text,
              value |-> Persona(results, ContentCount(content_items, texts))]

\* analyze_content: the four calls are made one after the other, and the
\* first that raises ends the method with that exception
AnalyzeContentResult(content_items, outcomes) ==
    LET combined_text == PrepareContent(content_items, DefaultMaxLength)
        texts == PrepareTexts(content_items, 1, << >>, 0, DefaultMaxLength)
        failed == FirstFailure(outcomes)
    IN  IF failed # 0
        THEN [raised |-> TRUE, calls |-> AnalysisCalls(combined_text, failed),
              combined_text |-> combined_text]
        ELSE [raised |-> FALSE, calls |-> AnalysisCalls(combined_text, Len(Aspects)),
              combined_text |-> combined_text,
              value |-> Persona(Responses, ContentCount(content_items, texts))]

\* json.dumps(persona, indent=2): the keys in insertion order with their values
JsonDumps(persona) ==
    <<"{", <<"writing_style", persona.writing_style>>,
           <<"communication_patterns", persona.communication_patterns>>,
           <<"topics_themes", persona.topics_themes>>,
           <<"decision_style", persona.decision_style>>,
           <<"content_count", persona.content_count>>, "}">>

\* the f-string of create_system_prompt: its literal pieces and, between
\* them, the values put in
PromptText(name, writing_style, communication_patterns, topics_themes, decision_style) ==
    <<"You are a digital twin of ", name,
      ". Your goal is to respond and make decisions in the same style and manner as ", name,
      ".\n\n**Writing Style:**\n", writing_style,
      "\n\n**Communication Patterns:**\n", communication_patterns,
      "\n\n**Key Topics and Themes:**\n", topics_themes,
      "\n\n**Decision-Making Approach:**\n", decision_style,
      "\n\nWhen responding:\n- Maintain ", name,
      "'s tone, style, and communication patterns\n- Use similar language, phrases, and vocabulary\n- Consider topics and themes in the same way ", name,
      " would\n- Apply the same decision-making approach\n- Be authentic to ", name,
      "'s perspective and reasoning\n\nBase your responses on the patterns observed in ", name,
      "'s actual communications and writings.">>

\* mutant: a missing field is formatted as persona.get(key) gives it
SystemPrompt_NoDefault(persona, person_name) ==
    PromptText(person_name,
               Str(DictGet(persona, "writing_style", NoneArg)),
               Str(DictGet(persona, "communication_patterns", NoneArg)),
               Str(DictGet(persona, "topics_themes", NoneArg)),
               Str(DictGet(persona, "decision_style", NoneArg)))

\* create_system_prompt(persona, person_name)
SystemPrompt(persona, person_name) ==
    PromptText(person_name,
               Str(DictGet(persona, "writing_style", "Not available")),
               Str(DictGet(persona, "communication_patterns", "Not available")),
               Str(DictGet(persona, "topics_themes", "Not available")),
               Str(DictGet(persona, "decision_style", "Not available")))

\* the profiles and names create_system_prompt is called with
PromptPersonas ==
    {Persona(Responses, 3),
     [writing_style |-> "style", topics_themes |-> NoneArg, content_count |-> 1],
     [content_count |-> 0]}
PersonNames == Names \cup {"this person"}

AnaRow(i, n) ==
    [id |-> i, content |-> IF n = 0 THEN << >> ELSE <<[src |-> i, len |-> n]>>,
     created_at |-> MaxAnaDocs - i]

\* the content tables, newest row first
AnaTables ==
    UNION {{[i \in 1..n |-> AnaRow(i, f[i])] : f \in [1..n -> DocLens]} : n \in 0..MaxAnaDocs}

\* the persona_profile tables: empty, or a profile saved earlier
AnaProfiles ==
    {<< >>, <<[id |-> 1, name |-> AnalyzeName, analysis |-> "a1", updated_at |-> 0]>>}

InitAna ==
    /\ content \in AnaTables
    /\ content_seq = Len(content)
    /\ persona_profile \in AnaProfiles
    /\ profile_seq = Len(persona_profile)
    /\ lastSaved = [n \in Names |->
                      IF ProfileRows(persona_profile, n) # {} THEN "a1" ELSE NoAnalysis]
    /\ now = 0
    /\ ConcIdle
    /\ VoiceIdle
    /\ TeacherIdle
    /\ MemoryOff
    /\ ret = [op |-> "init"]

\* analyzer._prepare_content(content_items, max_length)
PrepareContentCall(max_length) ==
    /\ \E content_items \in Listings(content) :
          ret' = [op |-> "_prepare_content", content_items |-> content_items,
                  max_length |-> max_length,
                  texts |-> PrepareTexts(content_items, 1, << >>, 0, max_length),
                  value |-> PrepareContent(content_items, max_length)]
    /\ UNCHANGED <<storeVars, concVars, histVars, memVars, voiceVars, teacherVars>>

\* analyzer.analyze_content(content_items)
AnalyzeContent(outcomes) ==
    /\ \E content_items \in Listings(content) :
          ret' = [op |-> "analyze_content", content_items |-> content_items,
                  outcomes |-> outcomes]
                 @@ AnalyzeContentResult(content_items, outcomes)
    /\ UNCHANGED <<storeVars, concVars, histVars, memVars, voiceVars, teacherVars>>

\* the analyze command: list the content, analyze it, save the profile;
\* any exception of the analysis is reported and the command returns
Analyze(name, outcomes) ==
    /\ \E content_items \in Listings(content) :
          LET call == [op |-> "analyze", name |-> name, outcomes |-> outcomes,
                       content_items |-> content_items]
              res == AnalyzeContentResult(content_items, outcomes)
              exists == ProfileRows(persona_profile, name) # {}
          IN  IF content_items = << >>
              THEN /\ ret' = call @@ [echo |-> "No content found", analyzed |-> FALSE,
                                      saved |-> FALSE]
                   /\ UNCHANGED <<persona_profile, profile_seq, lastSaved>>
              ELSE IF res.raised
              THEN /\ ret' = call @@ [echo |-> "Error analyzing content", analyzed |-> TRUE,
                                      saved |-> FALSE, raised |-> TRUE, calls |-> res.calls]
                   /\ UNCHANGED <<persona_profile, profile_seq, lastSaved>>
              ELSE /\ persona_profile' = UpsertProfile(persona_profile, exists, profile_seq + 1,
                                                      name, JsonDumps(res.value))
                   /\ profile_seq' = IF exists THEN profile_seq ELSE profile_seq + 1
                   /\ lastSaved' = [lastSaved EXCEPT ![name] = JsonDumps(res.value)]
                   /\ ret' = call @@ [echo |-> "Persona profile created", analyzed |-> TRUE,
                                      saved |-> TRUE, raised |-> FALSE, calls |-> res.calls,
                                      persona |-> res.value]
    /\ UNCHANGED <<content, content_seq, now, concVars, memVars, voiceVars, teacherVars>>

\* analyzer.create_system_prompt(persona, person_name)
CreateSystemPrompt(persona, person_name) ==
    /\ ret' = [op |-> "create_system_prompt", persona |-> persona,
               person_name |-> person_name, calls |-> << >>,
               value |-> SystemPrompt(persona, person_name)]
    /\ UNCHANGED <<storeVars, concVars, histVars, memVars, voiceVars, teacherVars>>

\* (the clock stands still here: a profile saved twice differs in its analysis)
NextAna ==
    \/ \E m \in MaxLengthArgs : PrepareContentCall(m)
    \/ \E o \in LLMOutcomes : AnalyzeContent(o)
    \/ \E o \in LLMOutcomes : Analyze(AnalyzeName, o)
    \/ \E p \in PromptPersonas, n \in PersonNames : CreateSystemPrompt(p, n)

SpecAna == InitAna /\ [][NextAna]_vars

(* -------------------------- Response generator ------------------------- *)
\* The texts of this section are sequences of strings: the literal pieces of
\* an f-string and the values put in as whole strings, and the content of a
\* document and the query character by character.
MaxExcerpt == 1000
MaxReferences == 3
DefaultMaxItems == 3

\* an optional list argument: None, or a list
NoneList == [is_none |-> TRUE]
SomeList(items) == [is_none |-> FALSE, items |-> items]

\* `not context`: None and the empty list are false
IsEmptyList(context) == context.is_none \/ context.items = << >>

\* a content of n characters
Chars(n) == [i \in 1..n |-> "b"]

\* the items _build_user_message is called with: a dict with a title and no
\* content, and a stored row (no title) whose content is longer than an excerpt
GenItems ==
    {[title |-> "Speech"],
     [id |-> 1, content |-> Chars(MaxExcerpt + 1)]}

GenContexts ==
    {NoneList} \cup
    UNION {{SomeList(c) : c \in [1..n -> GenItems]} : n \in 0..MaxContext}

\* f"**Reference {i}: {title}**\n{content_preview}"
ReferencePart(i, item) ==
    <<"**Reference ", ToString(i), ": ", DictGet(item, "title", "Untitled"), "**\n">>
        \o SliceTo(DictGet(item, "content", << >>), MaxExcerpt)

\* mutant: every context item is turned into a reference
ReferenceParts_All(context) ==
    [i \in 1..Len(context) |-> ReferencePart(i, context[i])]

\* context_parts: one part per item of context[:3], numbered from 1
ReferenceParts(context) ==
    LET top == SliceTo(context, MaxReferences)
    IN  [i \in 1..Len(top) |-> ReferencePart(i, top[i])]

\* _build_user_message(query, context)
BuildUserMessage(query, context) ==
    IF IsEmptyList(context) THEN query
    ELSE <<"Use the following references from past communications to inform your response:\n\n">>
             \o Join(ReferenceParts(context.items), "\n\n")
             \o <<"\n\n---\n\nNow, respond to the following:\n\n">>
             \o query

\* what self.llm.generate does: it returns a text or raises
GenOutcomes == {"ok", "raise"}

\* generate_response(query, system_prompt, context, max_tokens): the one
\* llm.generate call made and its result; an exception of the call is passed on
GenerateResponse(query, prompt, context, max_tokens, outcome) ==
    LET user_message == BuildUserMessage(query, context)
        call == [messages |-> <<[role |-> "user", content |-> user_message]>>,
                 system |-> prompt, max_tokens |-> max_tokens]
    IN  [calls |-> <<call>>] @@ (IF outcome = "raise" THEN Raise ELSE Return("response"))

\* _format_economic_data(data): one line per entry, in the dict's order
FormatEconomicData(data) ==
    Join([i \in 1..Len(data) |-> <<"- ", data[i][1], ": ", data[i][2]>>], "\n")

\* the query of generate_fomc_decision
FomcQuery(data_text) ==
    <<"Based on the following economic data, provide:\n\n1. **Policy Decision**: Should the Federal Reserve raise, lower, or maintain the federal funds rate? By how much?\n\n2. **Rationale**: Explain the reasoning behind this decision, considering:\n   - Inflation trends\n   - Employment situation\n   - Economic growth\n   - Financial stability\n   - Long-term goals\n\n3. **Forward Guidance**: What signals should be communicated about future policy?\n\n**Current Economic Data:**\n">>
        \o data_text
        \o <<"\n\nProvide your response in the style of an FOMC statement.">>

\* generate_fomc_decision(economic_data, system_prompt)
GenerateFomcDecision(economic_data, prompt, outcome) ==
    GenerateResponse(FomcQuery(FormatEconomicData(economic_data)), prompt, NoneList, 3000,
                     outcome)

\* json.loads of a text written by json.dumps: the dict of its pairs
JsonLoads(text) ==
    LET pairs == SubSeq(text, 2, Len(text) - 1)
    IN  [k \in {pairs[i][1] : i \in DOMAIN pairs} |->
            pairs[CHOOSE i \in DOMAIN pairs : pairs[i][1] = k][2]]

\* the economic_data dict of the fomc command, built from its options
EconomicData(inflation, unemployment, gdp_growth) ==
    <<<<"Inflation (CPI)", inflation>>, <<"Unemployment Rate", unemployment>>,
      <<"GDP Growth", gdp_growth>>, <<"Federal Funds Rate (current)", "5.25-5.50%">>>>

\* what the user types at the chat prompt: a question, "exit" or "quit", or
\* Ctrl-C, which click.prompt turns into click.Abort
TextInput(text) == [abort |-> FALSE, text |-> text]
AbortInput == [abort |-> TRUE]
ExitWords == {<<"e", "x", "i", "t">>, <<"q", "u", "i", "t">>}
GenQueries == {<< >>, <<"b">>}
ChatInputs == {TextInput(<<"b">>), AbortInput}
ChatScripts ==
    UNION {{s \o <<TextInput(e)>> : s \in [1..n -> ChatInputs], e \in ExitWords} :
              n \in 0..MaxChatInputs}

\* the while loop of the chat command from input i on: what each pass
\* echoes and the LLM calls it makes
RECURSIVE ChatLoop(_, _, _, _, _)
ChatLoop(script, i, all_content, prompt, outcome) ==
    IF i > Len(script) THEN << >>
    ELSE IF script[i].abort
    THEN <<[echo |-> "Error", calls |-> << >>]>>
             \o ChatLoop(script, i + 1, all_content, prompt, outcome)
    ELSE IF Lower(script[i].text) \in ExitWords
    THEN <<[echo |-> "Goodbye!", calls |-> << >>]>>
    ELSE LET user_input == script[i].text
             context == TopItems(RankedItems(all_content, user_input), DefaultMaxItems)
             res == GenerateResponse(user_input, prompt, SomeList(context), 2000, outcome)
         IN  <<[echo |-> IF res.raised THEN "Error" ELSE res.value, calls |-> res.calls]>>
                 \o ChatLoop(script, i + 1, all_content, prompt, outcome)

\* every LLM call of a sequence of passes
RECURSIVE LLMCalls(_)
LLMCalls(passes) == IF passes = << >> THEN << >> ELSE Head(passes).calls \o LLMCalls(Tail(passes))

GenRow(i, c) == [id |-> i, content |-> c, created_at |-> i]

\* the content tables: empty, or a short and a long document
GenTables == {<< >>, <<GenRow(1, <<"A", "b">>), GenRow(2, Chars(MaxExcerpt + 1))>>}

\* the persona_profile tables: empty, or the profile an analysis saved
GenProfiles ==
    {<< >>, <<[id |-> 1, name |-> AnalyzeName,
               analysis |-> JsonDumps(Persona(Responses, 2)), updated_at |-> 0]>>}

InitGen ==
    /\ content \in GenTables
    /\ content_seq = Len(content)
    /\ persona_profile \in GenProfiles
    /\ profile_seq = Len(persona_profile)
    /\ lastSaved = [n \in Names |-> NoAnalysis]
    /\ now = Len(content)
    /\ ConcIdle
    /\ VoiceIdle
    /\ TeacherIdle
    /\ MemoryOff
    /\ ret = [op |-> "init"]

\* generator._build_user_message(query, context)
BuildUserMessageCall(query, context) ==
    /\ ret' = [op |-> "_build_user_message", query |-> query, context |-> context,
               value |-> BuildUserMessage(query, context)]
    /\ UNCHANGED <<storeVars, concVars, histVars, memVars, voiceVars, teacherVars>>

\* the query command
Query(query, name, outcome) ==
    /\ \E all_content \in Listings(content) :
          LET call == [op |-> "query", name |-> name]
          IN  IF ProfileRows(persona_profile, name) = {}
              THEN ret' = call @@ [found |-> FALSE, echo |-> "No persona profile found",
                                   llm_calls |-> << >>]
              ELSE LET profile == FirstProfileRow(persona_profile, name)
                       persona == JsonLoads(profile.analysis)
                       prompt == SystemPrompt(persona, name)
                       context == TopItems(RankedItems(all_content, query), DefaultMaxItems)
                       res == GenerateResponse(query, prompt, SomeList(context), 2000,
                                               outcome)
                   IN  ret' = call @@ [found |-> TRUE,
                                       echo |-> IF res.raised THEN "Error generating response"
                                                ELSE res.value,
                                       llm_calls |-> res.calls]
    /\ UNCHANGED <<storeVars, concVars, histVars, memVars, voiceVars, teacherVars>>

\* the chat command, from its start to the pass that ends it
ChatCommand(name, script, outcome) ==
    /\ \E all_content \in Listings(content) :
          LET call == [op |-> "chat", name |-> name]
          IN  IF ProfileRows(persona_profile, name) = {}
              THEN ret' = call @@ [found |-> FALSE, echo |-> "No persona profile found",
                                   llm_calls |-> << >>]
              ELSE LET profile == FirstProfileRow(persona_profile, name)
                       persona == JsonLoads(profile.analysis)
                       prompt == SystemPrompt(persona, name)
                       passes == ChatLoop(script, 1, all_content, prompt, outcome)
                   IN  ret' = call @@ [found |-> TRUE, echo |-> passes[Len(passes)].echo,
                                       llm_calls |-> LLMCalls(passes)]
    /\ UNCHANGED <<storeVars, concVars, histVars, memVars, voiceVars, teacherVars>>

\* the fomc command
Fomc(inflation, unemployment, gdp_growth, name, outcome) ==
    /\ LET call == [op |-> "fomc", name |-> name]
       IN  IF ProfileRows(persona_profile, name) = {}
           THEN ret' = call @@ [found |-> FALSE, echo |-> "No persona profile found",
                                llm_calls |-> << >>]
           ELSE LET profile == FirstProfileRow(persona_profile, name)
                    persona == JsonLoads(profile.analysis)
                    prompt == SystemPrompt(persona, name)
                    res == GenerateFomcDecision(
                               EconomicData(inflation, unemployment, gdp_growth), prompt,
                               outcome)
                IN  ret' = call @@ [found |-> TRUE,
                                    echo |-> IF res.raised THEN "Error generating FOMC decision"
                                             ELSE res.value,
                                    llm_calls |-> res.calls]
    /\ UNCHANGED <<storeVars, concVars, histVars, memVars, voiceVars, teacherVars>>

NextGen ==
    \/ \E c \in GenContexts : BuildUserMessageCall(<<"b">>, c)
    \/ \E n \in Names : GetPersonaProfile(n)
    \/ \E q \in GenQueries, n \in Names, o \in GenOutcomes : Query(q, n, o)
    \/ \E n \in Names, s \in ChatScripts, o \in GenOutcomes : ChatCommand(n, s, o)
    \/ \E n \in Names, o \in GenOutcomes : Fomc("3.2%", "3.7%", "2.5%", n, o)

SpecGen == InitGen /\ [][NextGen]_vars

(* ---------------------------- English teacher -------------------------- *)
\* Messages, replies and prompts are texts as in the generator section. The
\* "timestamp" of a history entry is left out: nothing reads it.
UserMessages == {<< >>, <<" ", " ">>, <<"H", "i">>}
Replies == {<<"O", "K">>, <<"Y", "e", "s">>}
LLMResults == {"ok", "raise"}
\* self.memory at a chat call: None, a memory whose retrieval raises, one
\* that finds a note
TeacherMemories == {"off", "raise", "found"}
MaxHistoryArgs == {0, 1, 10}
DefaultSystemPrompt == <<"system_prompt.content">>

\* the scenarios of the scenarios file, by scenario_id
Scenarios ==
    [s1 |-> [title |-> "Office Hours",
             ai_role |-> [name |-> "Dr. Lee", personality |-> "patient",
                          speaking_style |-> "formal"],
             context |-> "You visit your advisor.",
             ai_prompts |-> [initial |-> "Come in!"]],
     s2 |-> [title |-> "Lab Lunch",
             ai_role |-> [name |-> "Sam", personality |-> "friendly",
                          speaking_style |-> "casual"],
             context |-> "You eat with a labmate.",
             ai_prompts |-> [follow_up |-> "['And you?']"]]]
ScenarioIds == {"s1", "s2", "unknown"}

\* ScenarioManager.get_scenario: self._scenarios.get(scenario_id); a
\* scenario is named by its id here
GetScenario(scenario_id) ==
    IF scenario_id \in DOMAIN Scenarios THEN scenario_id ELSE NoneArg

\* Scenario.get_system_prompt
ScenarioSystemPrompt(scenario) ==
    LET s == Scenarios[scenario]
    IN  <<"You are participating in a scenario-based English learning conversation.\n\n**Scenario:** ",
          s.title, "\n**Your Role:** ", s.ai_role.name,
          "\n**Personality:** ", s.ai_role.personality,
          "\n**Speaking Style:** ", s.ai_role.speaking_style,
          "\n\n**Context:**\n", s.context,
          "\n\n**Your Objectives:**\n- Stay in character as ", s.ai_role.name,
          "\n- Speak naturally as this character would\n- Ask relevant follow-up questions\n- Provide realistic responses\n- Help the student practice natural conversation\n- Gently correct major errors by modeling correct usage\n- Keep the conversation flowing naturally\n\n**Important:**\n- Respond as ",
          s.ai_role.name,
          " would, not as a teacher\n- Don't break character or mention that you're an AI\n- Use appropriate vocabulary and tone for this role\n- Keep responses conversational (2-4 sentences usually)\n- React naturally to what the student says\n\n**Conversation Flow:**\n- Start with: \"",
          DictGet(s.ai_prompts, "initial", "Hello!"),
          "\"\n- Follow up naturally based on student responses\n- Use these follow-ups when relevant: ",
          DictGet(s.ai_prompts, "follow_up", "[]"), "\n">>

\* str.strip(): the text without its leading and trailing whitespace
Strip(str) ==
    LET inked == {i \in DOMAIN str : ~IsSpace(str[i])}
    IN  IF inked = {} THEN << >>
        ELSE SubSeq(str, CHOOSE i \in inked : \A j \in inked : i <= j,
                         CHOOSE i \in inked : \A j \in inked : i >= j)

\* mutant: only the empty string is rejected
IsEmptyMessage_NoStrip(user_message) == user_message = << >>

\* not user_message or not user_message.strip()
IsEmptyMessage(user_message) == user_message = << >> \/ Strip(user_message) = << >>

UserEntry(user_message) == [role |-> "user", content |-> user_message]
AssistantEntry(response) == [role |-> "assistant", content |-> response]

\* mutant: the reply is put in front of the history
WithReply_InFront(history, response) == <<AssistantEntry(response)>> \o history

\* self.conversation_history.append({"role": "assistant", ...})
WithReply(history, response) == Append(history, AssistantEntry(response))

\* _get_memory_context: "" unless the memory returns notes; an exception of
\* the retrieval is logged and dropped
MemoryContext(memory) ==
    IF memory = "found"
    THEN <<"\n\nRelevant previous topics:\n", "- ", "past topic", "...\n">>
    ELSE << >>

\* _build_llm_messages(context) on the given history
BuildLLMMessages(history, prompt, max_history, context) ==
    LET max_exchanges == max_history * 2
        recent_history == SliceLast(history, max_exchanges)
        kept == SelectSeq(recent_history, LAMBDA msg : msg.role \in {"user", "assistant"})
    IN  <<[role |-> "system", content |-> prompt \o context]>>
            \o [i \in 1..Len(kept) |-> [role |-> kept[i].role, content |-> kept[i].content]]

\* [msg for msg in self.conversation_history if msg["role"] == role]
WithRole(history, role) == SelectSeq(history, LAMBDA msg : msg.role = role)

\* get_conversation_summary: no LLM call without user messages; a failure
\* of the call is reported in the summary text
ConversationSummary(history, outcome) ==
    IF history = << >> \/ WithRole(history, "user") = << >> THEN "No conversation yet."
    ELSE IF outcome = "raise" THEN "Summary generation failed."
    ELSE "summary"

\* mutant: end_scenario leaves the system prompt as it is
AfterEndScenario_KeepPrompt(prompt) ==
    [current_scenario |-> NoneArg, system_prompt |-> prompt]

\* end_scenario, "Reset to normal mode"
AfterEndScenario(prompt) ==
    [current_scenario |-> NoneArg, system_prompt |-> DefaultSystemPrompt]

InitTeacher ==
    /\ StoreEmpty
    /\ now = 0
    /\ ConcIdle
    /\ VoiceIdle
    /\ MemoryOff
    /\ teacher_history = << >>
    /\ system_prompt = DefaultSystemPrompt
    /\ current_scenario = NoneArg
    /\ max_history_exchanges \in MaxHistoryArgs
    /\ chat_log = << >>
    /\ ret = [op |-> "init"]

\* EnglishTeacher.chat(user_message)
TeacherChat(user_message, memory, outcome, response) ==
    /\ IsEmptyMessage(user_message) \/ Len(chat_log) < MaxChats
    /\ IF IsEmptyMessage(user_message)
       THEN /\ ret' = [op |-> "chat", user_message |-> user_message, raised |-> TRUE,
                       error |-> "ValueError", llm_calls |-> << >>]
            /\ UNCHANGED <<teacher_history, chat_log>>
       ELSE LET with_user == Append(teacher_history, UserEntry(user_message))
                context == MemoryContext(memory)
                messages == BuildLLMMessages(with_user, system_prompt,
                                             max_history_exchanges, context)
            IN  IF outcome = "raise"
                THEN /\ teacher_history' = with_user
                     /\ chat_log' = Append(chat_log, [user_message |-> user_message,
                                                      ok |-> FALSE])
                     /\ ret' = [op |-> "chat", user_message |-> user_message,
                                raised |-> TRUE, error |-> "Exception",
                                llm_calls |-> <<messages>>]
                ELSE /\ teacher_history' = WithReply(with_user, response)
                     /\ chat_log' = Append(chat_log, [user_message |-> user_message,
                                                      ok |-> TRUE, response |-> response])
                     /\ ret' = [op |-> "chat", user_message |-> user_message,
                                raised |-> FALSE, value |-> response,
                                llm_calls |-> <<messages>>]
    /\ UNCHANGED <<storeVars, concVars, histVars, memVars, voiceVars,
                   system_prompt, current_scenario, max_history_exchanges>>

\* EnglishTeacher._build_llm_messages(context)
BuildLLMMessagesCall(memory) ==
    /\ ret' = [op |-> "_build_llm_messages", context |-> MemoryContext(memory),
               value |-> BuildLLMMessages(teacher_history, system_prompt,
                                          max_history_exchanges, MemoryContext(memory))]
    /\ UNCHANGED <<storeVars, concVars, histVars, memVars, voiceVars, teacherVars>>

\* EnglishTeacher.reset_conversation()
ResetConversation ==
    /\ teacher_history' = << >>
    /\ chat_log' = << >>
    /\ ret' = [op |-> "reset_conversation"]
    /\ UNCHANGED <<storeVars, concVars, histVars, memVars, voiceVars,
                   system_prompt, current_scenario, max_history_exchanges>>

\* EnglishTeacher.get_stats()
GetStats ==
    /\ ret' = [op |-> "get_stats",
               total_exchanges |-> Len(WithRole(teacher_history, "user"))]
    /\ UNCHANGED <<storeVars, concVars, histVars, memVars, voiceVars, teacherVars>>

\* EnglishTeacher.start_scenario(scenario_id)
StartScenario(scenario_id) ==
    /\ LET scenario == GetScenario(scenario_id)
       IN  IF ~Truthy(scenario)
           THEN /\ ret' = [op |-> "start_scenario", scenario_id |-> scenario_id,
                           raised |-> TRUE, error |-> "ValueError"]
                /\ UNCHANGED <<teacher_history, chat_log, current_scenario, system_prompt>>
           ELSE /\ teacher_history' = << >>
                /\ chat_log' = << >>
                /\ current_scenario' = scenario
                /\ system_prompt' = ScenarioSystemPrompt(scenario)
                /\ ret' = [op |-> "start_scenario", scenario_id |-> scenario_id,
                           raised |-> FALSE]
    /\ UNCHANGED <<storeVars, concVars, histVars, memVars, voiceVars, max_history_exchanges>>

\* EnglishTeacher.end_scenario()
EndScenario(outcome) ==
    /\ IF ~Truthy(current_scenario)
       THEN /\ ret' = [op |-> "end_scenario", error |-> "No active scenario"]
            /\ UNCHANGED <<current_scenario, system_prompt>>
       ELSE /\ ret' = [op |-> "end_scenario",
                       scenario |-> Scenarios[current_scenario].title,
                       duration |-> Len(teacher_history) \div 2,
                       conversation_summary |-> ConversationSummary(teacher_history, outcome)]
            /\ current_scenario' = AfterEndScenario(system_prompt).current_scenario
            /\ system_prompt' = AfterEndScenario(system_prompt).system_prompt
    /\ UNCHANGED <<storeVars, concVars, histVars, memVars, voiceVars,
                   teacher_history, chat_log, max_history_exchanges>>

\* EnglishTeacher.get_scenario_progress()
GetScenarioProgress ==
    /\ ret' = IF ~Truthy(current_scenario)
              THEN [op |-> "get_scenario_progress", found |-> FALSE]
              ELSE [op |-> "get_scenario_progress", found |-> TRUE,
                    scenario |-> Scenarios[current_scenario].title,
                    exchanges_completed |-> Len(teacher_history) \div 2]
    /\ UNCHANGED <<storeVars, concVars, histVars, memVars, voiceVars, teacherVars>>

NextTeacher ==
    \/ \E m \in UserMessages, mem \in TeacherMemories, o \in LLMResults, r \in Replies :
          TeacherChat(m, mem, o, r)
    \/ \E mem \in TeacherMemories : BuildLLMMessagesCall(mem)
    \/ ResetConversation
    \/ GetStats
    \/ \E s \in ScenarioIds : StartScenario(s)
    \/ \E o \in LLMResults : EndScenario(o)
    \/ GetScenarioProgress

SpecTeacher == InitTeacher /\ [][NextTeacher]_vars

(* ------------------------------- claims -------------------------------- *)
RowCount(name) == Cardinality(ProfileRows(persona_profile, name))

\* C1: with save_persona_profile calls issued one at a time, the table holds
\* at most one row per name, a name has a row exactly when it was saved, and
\* get_persona_profile(name) returns the analysis of the latest save.
C1_UpsertLatestWins ==
    /\ \A n \in Names : RowCount(n) <= 1
    /\ \A n \in Names : (RowCount(n) = 1) <=> (lastSaved[n] # NoAnalysis)
    /\ ret.op = "get_persona_profile" =>
          /\ ret.found <=> (lastSaved[ret.name] # NoAnalysis)
          /\ ret.found => ret.value.analysis = lastSaved[ret.name]

\* C1 witness: get_persona_profile reads back a profile that was saved and
\* later saved again (its row was updated after a younger row was written)
C1_Witness ==
    /\ ret.op = "get_persona_profile"
    /\ ret.found
    /\ ret.value.analysis = lastSaved[ret.name]
    /\ \E i \in 1..Len(persona_profile) :
          /\ persona_profile[i].id > ret.value.id
          /\ persona_profile[i].updated_at < ret.value.updated_at

\* C2: when two save_persona_profile calls for the same name interleave
\* their existence check and their insert/update, the table never holds
\* more than one row for a name, and holds exactly one once a save committed.
C2_ConcurrentUpsertOneRow ==
    \A n \in Names :
        /\ RowCount(n) <= 1
        /\ lastSaved[n] # NoAnalysis => RowCount(n) = 1

\* C3: add_content with empty content fails with a validation error and
\* leaves the table unchanged; with non-empty content it inserts exactly one
\* row and returns its new identifier.
C3_EmptyContentRejected ==
    [][ret'.op = "add_content" =>
          IF ret'.content = << >>
          THEN ret'.status = "ValidationError" /\ content' = content
          ELSE /\ ret'.status = "ok"
               /\ content' = Append(content, content'[Len(content')])
               /\ content'[Len(content')].content = ret'.content
               /\ ret'.value = content'[Len(content')].id
               /\ \A i \in 1..Len(content) : content[i].id # ret'.value]_vars

\* the most recently inserted document
Newest == content[Len(content)]

\* C4: whatever the time between insertions, get_all_content after an
\* add_content with non-empty content lists every document once and lists
\* the newly inserted document first.
C4_NewestListedFirst ==
    (ret.op = "get_all_content" /\ content # << >> /\ Newest.content # << >>) =>
        /\ Len(ret.value) = Len(content)
        /\ ret.value[1] = Newest

\* the whitespace-separated terms of the lower-cased query
Terms(query) ==
    LET lq == Lower(query)
    IN  {SubSeq(lq, i, j) : <<i, j>> \in
            {ij \in (1..Len(lq)) \X (1..Len(lq)) :
                /\ ij[1] <= ij[2]
                /\ \A k \in ij[1]..ij[2] : ~IsSpace(lq[k])
                /\ ij[1] = 1 \/ IsSpace(lq[ij[1] - 1])
                /\ ij[2] = Len(lq) \/ IsSpace(lq[ij[2] + 1])}}

\* the number of the given terms found in the document
Hits(terms, item) ==
    IF "content" \in DOMAIN item
    THEN LET text == Lower(item.content)
         IN  Cardinality({t \in terms : Contains(text, t)})
    ELSE 0

\* the number of distinct terms of the query found in the document
TermScore(query, item) == Hits(Terms(query), item)

Matching(listing, query) == {i \in 1..Len(listing) : TermScore(query, listing[i]) >= 1}

\* C5: find_relevant_context scores a document by the number of distinct
\* lower-cased, whitespace-split query terms found in its lower-cased
\* content, and returns only documents of score at least 1.
C5_ScoreCountsMatchingTerms ==
    ret.op = "find_relevant_context" =>
        LET terms == Terms(ret.query)
        IN  /\ \A i \in 1..Len(ret.scored_items) :
                  /\ ret.scored_items[i].score = Hits(terms, ret.scored_items[i].item)
                  /\ ret.scored_items[i].score >= 1
            /\ \A i \in 1..Len(ret.value) : Hits(terms, ret.value[i]) >= 1

\* C5 witness: a query of two terms against a document holding only one of
\* them scores 1
C5_Witness ==
    /\ ret.op = "find_relevant_context"
    /\ ret.query = <<"A", " ", "b">>
    /\ \E i \in 1..Len(ret.scored_items) :
          /\ ret.scored_items[i].item.content = <<"B">>
          /\ ret.scored_items[i].score = 1
          /\ \E j \in 1..Len(ret.value) : ret.value[j] = ret.scored_items[i].item

\* C6: find_relevant_context returns min(max_items, number of matching
\* documents) documents, in descending score order, equal scores in listing
\* order, and no document left out ranks before a returned one.
C6_TopItemsStable ==
    ret.op = "find_relevant_context" =>
        LET l == ret.all_content
            v == ret.value
            terms == Terms(ret.query)
            score == [p \in 1..Len(l) |-> Hits(terms, l[p])]
            matching == {p \in 1..Len(l) : score[p] >= 1}
            pos == [i \in 1..Len(v) |-> CHOOSE p \in 1..Len(l) : l[p] = v[i]]
            Before(p1, p2) ==
                \/ score[p1] > score[p2]
                \/ score[p1] = score[p2] /\ p1 < p2
        IN  /\ Len(v) <= ret.max_items
            /\ Len(v) = Min(ret.max_items, Cardinality(matching))
            /\ \A i \in 1..Len(v) : \E p \in matching : l[p] = v[i]
            /\ \A i, j \in 1..Len(v) : i < j => Before(pos[i], pos[j])
            /\ \A p \in matching :
                  (\A i \in 1..Len(v) : pos[i] # p) => \A i \in 1..Len(v) : Before(pos[i], p)

\* C6 witness: 5 matching documents of both scores, max_items = 3, 3 returned
C6_Witness ==
    /\ ret.op = "find_relevant_context"
    /\ ret.max_items = 3
    /\ Cardinality(Matching(ret.all_content, ret.query)) = 5
    /\ Len(ret.value) = 3
    /\ TermScore(ret.query, ret.value[1]) = 2
    /\ TermScore(ret.query, ret.value[2]) = 1
    /\ TermScore(ret.query, ret.value[3]) = 1

\* C7: find_relevant_context returns the empty list for a query without
\* terms, for an empty store and when no term matches any document; a
\* document without a content key counts as empty content and is never
\* returned; the call leaves the store as it was.
C7_EmptyResultCases ==
    [][ret'.op = "find_relevant_context" =>
          LET terms == Terms(ret'.query)
          IN  /\ content' = content
              /\ (\/ terms = {}
                  \/ content = << >>
                  \/ \A i \in 1..Len(content) : Hits(terms, content[i]) = 0)
                    => ret'.value = << >>
              /\ \A i \in 1..Len(ret'.value) : "content" \in DOMAIN ret'.value[i]]_vars

\* C7 witness: a query with terms over documents that all lack the content
\* key gives the empty list
C7_Witness ==
    /\ ret.op = "find_relevant_context"
    /\ ret.query = <<"A", " ", "b">>
    /\ Len(ret.all_content) >= 2
    /\ \A i \in 1..Len(ret.all_content) : "content" \notin DOMAIN ret.all_content[i]
    /\ ret.value = << >>

\* the turn lines of the Recent Conversation block of a context
RecentBlock(parts) ==
    IF parts # << >> /\ parts[1] = RecentHeader
    THEN LET stop == IF \E i \in 1..Len(parts) : parts[i] = MemoryHeader
                     THEN CHOOSE i \in 1..Len(parts) : parts[i] = MemoryHeader
                     ELSE Len(parts) + 1
         IN  SubSeq(parts, 2, stop - 1)
    ELSE << >>

\* C8: for every history of n turns and every max_turns, the Recent
\* Conversation block of get_conversation_context holds exactly the last
\* min(max_turns, n) turns, in their original order.
C8_RecentWindowExact ==
    ret.op = "get_conversation_context" =>
        LET n == Len(conversation_history)
            m == Min(ret.max_turns, n)
        IN  RecentBlock(ret.context_parts) =
                [i \in 1..m |-> TurnLine(conversation_history[n - m + i])]

\* C9: store_conversation_turn appends exactly one turn with the given role
\* and content at the end of conversation_history and leaves the earlier
\* turns as they were; get_memory_stats reports as many turns as
\* store_conversation_turn was called since the history was last cleared.
C9_AppendOnly ==
    [][/\ ret'.op = "store_conversation_turn" =>
            /\ Len(conversation_history') = Len(conversation_history) + 1
            /\ SubSeq(conversation_history', 1, Len(conversation_history)) = conversation_history
            /\ conversation_history'[Len(conversation_history')].role = ret'.role
            /\ conversation_history'[Len(conversation_history')].content = ret'.content
       /\ ret'.op = "get_memory_stats" =>
            ret'.value.conversation_turns = turn_calls']_vars

\* C9 witness: the same turn stored twice in a row, then counted
C9_Witness ==
    /\ ret.op = "get_memory_stats"
    /\ ret.value.conversation_turns = 2
    /\ turn_calls = 2
    /\ Len(conversation_history) = 2
    /\ conversation_history[1] = conversation_history[2]

\* C10: store_conversation_turn writes a long-term note only when the role
\* is "assistant" and long-term recall is enabled, and that note pairs the
\* query with the response; any other turn leaves the notes as they were.
C10_SelectiveWriteBack ==
    [][ret'.op = "store_conversation_turn" =>
          IF ret'.role = "assistant" /\ use_memory
          THEN \/ memories' = memories
               \/ /\ Len(memories') = Len(memories) + 1
                  /\ SubSeq(memories', 1, Len(memories)) = memories
                  /\ memories'[Len(memories')].content =
                        <<"Q: ", Str(ret'.query), "\nA: ", ret'.content>>
                  /\ memories'[Len(memories')].metadata.query = ret'.query
                  /\ memories'[Len(memories')].metadata.content_type = "conversation"
          ELSE memories' = memories]_vars

\* C10 witness: an assistant turn stored with recall enabled has written its
\* note, after a user turn that wrote none
C10_Witness ==
    /\ ret.op = "store_conversation_turn"
    /\ ret.role = "assistant"
    /\ use_memory
    /\ Len(conversation_history) = 2
    /\ conversation_history[1].role = "user"
    /\ Len(memories) = 1
    /\ memories[1].content = <<"Q: ", "Hi", "\nA: ", "Hello!">>

\* the lines the turns of a history are rendered as
HistoryLines(history) == {TurnLine(history[i]) : i \in 1..Len(history)}

\* the call ran with long-term recall disabled, or its backend call raised
Degraded(call) == ~use_memory \/ call.backend = "raise"

\* C11: when long-term recall is disabled, or its backend search or write
\* raises, add_content returns None and stores nothing, search returns the
\* empty list, and neither get_conversation_context nor
\* store_conversation_turn raises: the context holds lines of the recent
\* conversation only, and the turn is appended to the history.
C11_RecallFailureDegrades ==
    [][(ret'.op \in {"add_content", "search", "get_conversation_context",
                     "store_conversation_turn"} /\ Degraded(ret'))
       => /\ ~ret'.raised
          /\ ret'.op = "add_content" => ret'.value = NoneArg /\ memories' = memories
          /\ ret'.op = "search" => ret'.value = << >>
          /\ ret'.op = "get_conversation_context"
                => /\ \A i \in 1..Len(ret'.context_parts) :
                         ret'.context_parts[i] \in {RecentHeader} \cup HistoryLines(conversation_history)
                   /\ \A i \in 1..Len(ret'.value) : <<ret'.value[i]>> # MemoryHeader
                   /\ conversation_history # << >> => ret'.value # << >>
          /\ ret'.op = "store_conversation_turn"
                => /\ Len(conversation_history') = Len(conversation_history) + 1
                   /\ SubSeq(conversation_history', 1, Len(conversation_history)) = conversation_history
                   /\ conversation_history'[Len(conversation_history')].role = ret'.role
                   /\ conversation_history'[Len(conversation_history')].content = ret'.content
                   /\ memories' = memories]_vars

\* a context was asked for while notes were stored, and the search raised
C11_Witness ==
    /\ ret.op = "get_conversation_context"
    /\ ret.backend = "raise"
    /\ memories # << >>
    /\ conversation_history # << >>
    /\ ret.value # << >>

Count(parts, x) == Cardinality({i \in 1..Len(parts) : parts[i] = x})

\* C12: get_conversation_context returns the empty string when there are no
\* turns and recall is disabled or found nothing; otherwise the context has
\* one Recent Conversation header exactly when turns exist, placed first,
\* one Relevant Context from Memory header exactly when recall is enabled
\* and the search result is non-empty, and no header or line of the recent
\* conversation after the memory header.
C12_ContextBlocks ==
    [][ret'.op = "get_conversation_context"
       => LET parts == ret'.context_parts
              recent == conversation_history # << >>
              recalled == use_memory /\ ret'.memories # << >>
          IN  /\ (~recent /\ ~recalled) <=> ret'.value = << >>
              /\ Count(parts, RecentHeader) = (IF recent THEN 1 ELSE 0)
              /\ Count(parts, MemoryHeader) = (IF recalled THEN 1 ELSE 0)
              /\ recent => parts[1] = RecentHeader
              /\ \A i, j \in 1..Len(parts) :
                    (parts[i] = MemoryHeader /\ i < j)
                    => parts[j] \notin {RecentHeader} \cup HistoryLines(conversation_history)]_vars

\* a context with both blocks was returned
C12_Witness ==
    /\ ret.op = "get_conversation_context"
    /\ conversation_history # << >>
    /\ ret.memories # << >>
    /\ Count(ret.context_parts, RecentHeader) = 1
    /\ Count(ret.context_parts, MemoryHeader) = 1

\* the recording thread works on a chunk: it is past the test of
\* record_chunk and has not yet appended what it read
InChunk == th_pc \in {"read", "reading", "append"}

\* C13: once the foreground has closed the stream and read the buffer into
\* the audio file, the recording thread neither appends to the buffer nor
\* enters a read of the stream; and when the buffer is read the thread is
\* not in the middle of a chunk.
C13_StoppedBeforeBufferRead ==
    [][/\ (stream = "closed" /\ wav # -1)
            => /\ ~(th_pc = "append" /\ th_pc' = "loop")
               /\ ~(th_pc = "read" /\ th_pc' # "read")
       /\ (wav = -1 /\ wav' # -1) => ~InChunk]_vars

ThreadOver == th_pc \in {"done", "died"}

\* C14: record_until_enter returns the path only after the recording thread
\* has terminated, no recording thread runs when transcription starts, and
\* once Enter is pressed the recording thread eventually terminates.
C14_JoinedBeforeTranscription ==
    /\ [][(rec_pc = "join" /\ rec_pc' = "idle") => ThreadOver]_vars
    /\ [](cli_pc = "transcribe" => ThreadOver)
    /\ (rec_pc = "stop") ~> ThreadOver

\* a recording with a chunk in its file has been handed to transcription
C14_Witness ==
    /\ cli_pc = "transcribe"
    /\ ret.event = "recorded"
    /\ wav >= 1
    /\ th_pc = "done"

\* C15: in voice_chat and in scenario, when a keyboard interrupt ends the
\* loop, save_session has been called by the handler before the loop exits.
C15_InterruptSavesSession ==
    [][(cli_pc # "exited" /\ cli_pc' = "exited" /\ ret'.event = "KeyboardInterrupt")
       => save_calls' = save_calls + 1]_vars

Failing(outcomes) == {i \in DOMAIN outcomes : outcomes[i] = "raise"}

\* C16: when some of the four analysis calls fail, analyze_content still
\* issues all four calls and returns a profile that holds 'Not available'
\* for each failed aspect and the result for every other; it raises only
\* when all four calls fail.
C16_FailedAspectDegrades ==
    [][ret'.op = "analyze_content"
       => /\ Len(ret'.calls) = Len(Aspects)
          /\ ret'.raised <=> Failing(ret'.outcomes) = DOMAIN Aspects
          /\ ~ret'.raised
                => \A i \in DOMAIN Aspects :
                      (ret'.value[Aspects[i]] = "Not available") <=> i \in Failing(ret'.outcomes)]_vars

\* C17: if any of the four analysis calls raises, analyze_content raises and
\* returns no profile, and the analyze command reports the error, makes no
\* save and leaves the persona_profile table as it was.
C17_AnyFailureFailsWhole ==
    [][/\ (ret'.op = "analyze_content" /\ Failing(ret'.outcomes) # {})
            => ret'.raised /\ "value" \notin DOMAIN ret'
       /\ (ret'.op = "analyze" /\ ret'.analyzed /\ Failing(ret'.outcomes) # {})
            => /\ ret'.echo = "Error analyzing content"
               /\ ~ret'.saved
               /\ persona_profile' = persona_profile
               /\ profile_seq' = profile_seq]_vars

\* one call failed while a profile was stored for the name: it is still there
C17_Witness ==
    /\ ret.op = "analyze"
    /\ ret.analyzed
    /\ Cardinality(Failing(ret.outcomes)) = 1
    /\ ret.echo = "Error analyzing content"
    /\ \E i \in 1..Len(persona_profile) :
          persona_profile[i].name = ret.name /\ persona_profile[i].analysis = "a1"

\* the sum of the lengths of the contents of the rows of a table
RECURSIVE TotalLen(_)
TotalLen(texts) == IF texts = << >> THEN 0 ELSE StrLen(Head(texts)) + TotalLen(Tail(texts))

Contents(items) == [i \in 1..Len(items) |-> items[i].content]

\* C18: when the four calls succeed analyze_content does not raise, and
\* content_count is the number of input documents, whatever the cap cut off
\* and however many documents are empty.
C18_ContentCountIsInputCount ==
    [][/\ (ret'.op = "analyze_content" /\ Failing(ret'.outcomes) = {})
            => ~ret'.raised /\ ret'.value.content_count = Len(content)
       /\ (ret'.op = "analyze" /\ ret'.saved)
            => ret'.persona.content_count = Len(content)]_vars

\* three documents, one of them empty, the other two beyond the cap together
C18_Witness ==
    /\ ret.op = "analyze_content"
    /\ ~ret.raised
    /\ Len(ret.content_items) = 3
    /\ \E i \in 1..3 : ret.content_items[i].content = << >>
    /\ TotalLen(Contents(ret.content_items)) > DefaultMaxLength
    /\ StrLen(ret.combined_text) = DefaultMaxLength
    /\ ret.value.content_count = 3

\* text a is the first StrLen(a) characters of text b
IsPrefixText(a, b) ==
    /\ Len(a) <= Len(b)
    /\ \A i \in 1..(Len(a) - 1) : a[i] = b[i]
    /\ a # << >> => a[Len(a)].src = b[Len(a)].src /\ a[Len(a)].len <= b[Len(a)].len

NonEmpty(texts) == SelectSeq(texts, LAMBDA c : c # << >>)

\* C19: the text of _prepare_content is never longer than max_length and is
\* the start of the non-empty contents, in listing order, joined by the
\* separator; a document is appended only while the running total of the
\* content lengths before it does not exceed the cap; every analysis call
\* receives the first 15,000 characters of the text at most.
C19_PreparedTextWithinCap ==
    [][/\ ret'.op = "_prepare_content"
            => LET all == NonEmpty(Contents(ret'.content_items))
                   joined == Join(all, Separator)
                   texts == ret'.texts
               IN  /\ StrLen(ret'.value) <= ret'.max_length
                   /\ StrLen(ret'.value) = Min(ret'.max_length, StrLen(joined))
                   /\ IsPrefixText(ret'.value, joined)
                   /\ texts = SubSeq(all, 1, Len(texts))
                   /\ \A k \in 1..(Len(texts) - 1) :
                         TotalLen(SubSeq(texts, 1, k)) <= ret'.max_length
                   /\ Len(texts) < Len(all) => TotalLen(texts) > ret'.max_length
       /\ ret'.op = "analyze_content"
            => /\ StrLen(ret'.combined_text) <= DefaultMaxLength
               /\ \A i \in 1..Len(ret'.calls) :
                     /\ StrLen(ret'.calls[i].text)
                           = Min(AnalysisChars, StrLen(ret'.combined_text))
                     /\ IsPrefixText(ret'.calls[i].text, ret'.combined_text)]_vars

\* three non-empty documents, the third left out, the text cut at the cap
C19_Witness ==
    /\ ret.op = "_prepare_content"
    /\ ret.max_length = DefaultMaxLength
    /\ Len(NonEmpty(Contents(ret.content_items))) = 3
    /\ Len(ret.texts) = 2
    /\ StrLen(ret.value) = DefaultMaxLength

\* what create_system_prompt has to put in for a field of the profile
Field(persona, key) ==
    IF key \in DOMAIN persona THEN Str(persona[key]) ELSE "Not available"

\* C20: the text create_system_prompt returns depends on the profile and the
\* person name alone: it is the template with the name and, for each of the
\* four aspects, the profile's field or 'Not available' when the field is
\* missing; the call makes no LLM request and changes no state.
C20_SystemPromptPure ==
    [][ret'.op = "create_system_prompt"
       => /\ ret'.value = PromptText(ret'.person_name,
                                     Field(ret'.persona, "writing_style"),
                                     Field(ret'.persona, "communication_patterns"),
                                     Field(ret'.persona, "topics_themes"),
                                     Field(ret'.persona, "decision_style"))
          /\ ret'.calls = << >>
          /\ UNCHANGED <<storeVars, concVars, histVars, memVars, voiceVars, teacherVars>>]_vars

\* a prompt was made from a profile without decision_style
C20_Witness ==
    /\ ret.op = "create_system_prompt"
    /\ "decision_style" \notin DOMAIN ret.persona
    /\ "writing_style" \in DOMAIN ret.persona
    /\ ret.value[12] = "Not available"
    /\ ret.value[6] = "style"

\* C21: _build_user_message returns the query itself when the context is
\* None or the empty list. Otherwise the message is the heading, then one
\* reference for each of the first three context items (and no other item)
\* in input order, each made of a label with its index and its title and of
\* at most the first 1,000 characters of its content, then the closing line
\* and the query as given.
C21_UserMessage ==
    ret.op = "_build_user_message" =>
        IF ret.context.is_none \/ Len(ret.context.items) = 0
        THEN ret.value = ret.query
        ELSE LET items == ret.context.items
                 n == IF Len(items) < 3 THEN Len(items) ELSE 3
                 title(i) == IF "title" \in DOMAIN items[i] THEN items[i].title
                             ELSE "Untitled"
                 text(i) == IF "content" \in DOMAIN items[i] THEN items[i].content
                            ELSE << >>
                 excerpt(i) == SubSeq(text(i), 1,
                                      IF Len(text(i)) < 1000 THEN Len(text(i)) ELSE 1000)
                 reference(i) == <<"**Reference ", ToString(i), ": ", title(i), "**\n">>
                                     \o excerpt(i)
                 refs[k \in 0..n] ==
                     IF k = 0 THEN << >>
                     ELSE IF k = 1 THEN reference(1)
                     ELSE refs[k - 1] \o <<"\n\n">> \o reference(k)
             IN  ret.value =
                     <<"Use the following references from past communications to inform your response:\n\n">>
                         \o refs[n]
                         \o <<"\n\n---\n\nNow, respond to the following:\n\n">>
                         \o ret.query

\* a message built from more than three items, one of the first three
\* longer than an excerpt
C21_Witness ==
    /\ ret.op = "_build_user_message"
    /\ ~ret.context.is_none
    /\ Len(ret.context.items) > 3
    /\ \E i \in 1..3 : /\ "content" \in DOMAIN ret.context.items[i]
                       /\ Len(ret.context.items[i].content) > 1000
    /\ \E i \in 1..3 : "title" \in DOMAIN ret.context.items[i]

\* no profile is stored under the name
NoProfile(name) == \A i \in DOMAIN persona_profile : persona_profile[i].name # name

\* C22: get_persona_profile for a name with no stored profile returns the
\* not-found value and leaves the store as it was; the query, chat and fomc
\* commands run for such a name report the missing profile and end with no
\* LLM call made and the store as it was.
C22_MissingProfile ==
    [][/\ (ret'.op = "get_persona_profile" /\ NoProfile(ret'.name)) =>
              /\ ~ret'.found
              /\ "value" \notin DOMAIN ret'
              /\ UNCHANGED storeVars
       /\ (ret'.op \in {"query", "chat", "fomc"} /\ NoProfile(ret'.name)) =>
              /\ ~ret'.found
              /\ ret'.echo = "No persona profile found"
              /\ ret'.llm_calls = << >>
              /\ UNCHANGED storeVars]_vars

\* the chat command run for a name with no profile while another name has one
C22_Witness ==
    /\ ret.op = "chat"
    /\ NoProfile(ret.name)
    /\ persona_profile # << >>

\* a row without its updated_at
Stored(row) == [id |-> row.id, name |-> row.name, analysis |-> row.analysis]

\* C23: a save_persona_profile(name, p) call made when the latest save for
\* that name was made with the same p leaves the table with the same number
\* of rows and every row with the same id, name and analysis as before the
\* call: only updated_at may differ. Calling it twice in a row is the case
\* where the latest save is the call just before.
C23_SaveIdempotent ==
    [][(ret'.op = "save_persona_profile" /\ lastSaved[ret'.name] = ret'.analysis) =>
           /\ Len(persona_profile') = Len(persona_profile)
           /\ \A i \in DOMAIN persona_profile :
                  Stored(persona_profile'[i]) = Stored(persona_profile[i])]_vars

\* the same save repeated one second later, with another profile in the table
C23_Witness ==
    /\ ret.op = "save_persona_profile"
    /\ ret.previous = ret.analysis
    /\ Len(persona_profile) = 2
    /\ \E i \in DOMAIN persona_profile :
          /\ persona_profile[i].name = ret.name
          /\ persona_profile[i].updated_at = 1
    /\ \E i \in DOMAIN persona_profile :
          /\ persona_profile[i].name # ret.name
          /\ persona_profile[i].analysis # ret.analysis
          /\ persona_profile[i].updated_at = 0

\* C24: every step of the store (add_content, get_all_content,
\* get_content_count, save_persona_profile, get_persona_profile) leaves
\* each document stored before it in place with all its fields as they
\* were; the ids of the documents are pairwise different, and a new
\* document never gets an id that a stored document has.
C24_DocumentsImmutable ==
    /\ [](\A i, j \in DOMAIN content : i # j => content[i].id # content[j].id)
    /\ [][/\ \A i \in DOMAIN content :
                 i \in DOMAIN content' /\ content'[i] = content[i]
          /\ \A j \in DOMAIN content' \ DOMAIN content :
                 \A i \in DOMAIN content : content'[j].id # content[i].id]_vars

\* two documents stored, then a profile saved over an existing one
C24_Witness ==
    /\ Len(content) = 2
    /\ ret.op = "save_persona_profile"
    /\ ret.previous # NoAnalysis

\* C25: when every chat call that reached the history since it was last
\* empty has succeeded, the history of the teacher holds exactly two entries
\* per call, in call order: the user's message, then the reply that call got.
C25_HistoryAlternates ==
    (\A k \in DOMAIN chat_log : chat_log[k].ok) =>
        /\ Len(teacher_history) = 2 * Len(chat_log)
        /\ \A k \in DOMAIN chat_log :
              /\ teacher_history[2 * k - 1] =
                     [role |-> "user", content |-> chat_log[k].user_message]
              /\ teacher_history[2 * k] =
                     [role |-> "assistant", content |-> chat_log[k].response]

\* three successful calls in a row, with different replies
C25_Witness ==
    /\ Len(chat_log) = 3
    /\ \A k \in DOMAIN chat_log : chat_log[k].ok
    /\ chat_log[1].response # chat_log[2].response
    /\ ret.op = "chat"
    /\ ~ret.raised

\* C26: _build_llm_messages returns the system message first, followed by
\* at most 2 * max_history_exchanges messages, which are the last entries of
\* the history in their order.
C26_HistoryWindow ==
    ret.op = "_build_llm_messages" =>
        LET messages == ret.value
            n == Len(messages) - 1
            h == teacher_history
        IN  /\ messages[1].role = "system"
            /\ n <= 2 * max_history_exchanges
            /\ n <= Len(h)
            /\ \A i \in 1..n :
                  messages[1 + i] = [role |-> h[Len(h) - n + i].role,
                                     content |-> h[Len(h) - n + i].content]

\* the message is empty or made of whitespace only
Blank(message) == \A i \in DOMAIN message : message[i] \in {" ", "\t", "\n"}

\* C27: chat called with an empty or whitespace-only message raises
\* ValueError, makes no LLM call and leaves the history as it was.
C27_EmptyMessageRejected ==
    [][(ret'.op = "chat" /\ Blank(ret'.user_message)) =>
           /\ ret'.raised
           /\ ret'.error = "ValueError"
           /\ ret'.llm_calls = << >>
           /\ teacher_history' = teacher_history]_vars

\* a whitespace-only message sent in the middle of a conversation
C27_Witness ==
    /\ ret.op = "chat"
    /\ ret.user_message # << >>
    /\ Blank(ret.user_message)
    /\ teacher_history # << >>

\* the chat calls of the log that returned a reply
Completed == Cardinality({k \in DOMAIN chat_log : chat_log[k].ok})

\* C28: a chat call that raises leaves the history as it was before the
\* call; every user entry of the history is followed by an assistant entry;
\* and the exchanges reported (history length divided by 2 in the scenario
\* summary and progress, total_exchanges of get_stats) are the completed ones.
C28_FailedChatRollsBack ==
    /\ [][(ret'.op = "chat" /\ ret'.raised) => teacher_history' = teacher_history]_vars
    /\ [](\A i \in DOMAIN teacher_history :
              teacher_history[i].role = "user" =>
                  /\ i < Len(teacher_history)
                  /\ teacher_history[i + 1].role = "assistant")
    /\ [](ret.op = "get_stats" => ret.total_exchanges = Completed)
    /\ [](ret.op = "get_scenario_progress" /\ ret.found =>
              ret.exchanges_completed = Completed)

\* C29: the system prompt is the prompt of the active scenario exactly when
\* a scenario is active, and the default prompt exactly when none is;
\* start_scenario with an unknown id raises and end_scenario with no active
\* scenario returns an error result, both leaving the history, the active
\* scenario and the system prompt as they were.
C29_PromptFollowsScenario ==
    /\ [](/\ (system_prompt = DefaultSystemPrompt) <=> (current_scenario = NoneArg)
          /\ \A s \in DOMAIN Scenarios :
                (system_prompt = ScenarioSystemPrompt(s)) <=> (current_scenario = s))
    /\ [][/\ (ret'.op = "start_scenario" /\ ret'.scenario_id \notin DOMAIN Scenarios) =>
                 /\ ret'.raised
                 /\ UNCHANGED <<teacher_history, current_scenario, system_prompt>>
          /\ (ret'.op = "end_scenario" /\ current_scenario = NoneArg) =>
                 /\ "error" \in DOMAIN ret'
                 /\ UNCHANGED <<teacher_history, current_scenario, system_prompt>>]_vars

\* a scenario with a conversation in it has just been ended
C29_Witness ==
    /\ ret.op = "end_scenario"
    /\ "error" \notin DOMAIN ret
    /\ ret.duration > 0
    /\ current_scenario = NoneArg
    /\ teacher_history # << >>

\* C30: when record_until_enter ends, by returning or by a keyboard
\* interrupt raised while it waits in input(), is_recording is False and the
\* recording thread has ended.
C30_RecorderStoppedAtEnd ==
    [][(rec_pc \in {"join", "input"} /\ rec_pc' = "idle") =>
           /\ ~is_recording'
           /\ th_pc' \in {"done", "died"}]_vars

====
